---------------------------- MODULE Spec2Model ----------------------------
(***************************************************************************)
(* Interactive transaction construction (lightning/src/ln/interactivetxs.rs)*)
(*                                                                         *)
(* NegotiationContext mutators, the typed StateMachine and the             *)
(* InteractiveTxConstructor driver are operators over records; nine        *)
(* specifications exercise them:                                           *)
(*   Spec      two constructors that speak only to each other              *)
(*   SpecPeer  one constructor fed arbitrary messages by its peer          *)
(*   SpecSM    a bare StateMachine driven transition by transition         *)
(*   SpecCount a bare StateMachine whose received counters are at the limit*)
(*   SpecGen   generate_holder_serial_id applied to entropy                *)
(*   SpecBuild tx_complete on contexts with tables of up to 254 entries    *)
(*   SpecOut   received_tx_add_output on contexts near the value limits    *)
(*   SpecLive  Spec under weak fairness of message delivery                *)
(*   SpecSplit the funding output added over the range of contributions    *)
(*                                                                         *)
(* Amounts are satoshis.  TLC integers are 32 bits wide, so a u32 sequence *)
(* number is kept as two 16-bit halves, u64 amounts saturate at U64_MAX    *)
(* and i64 amounts range over I64_MIN..I64_MAX, one bit narrower.          *)
(***************************************************************************)
EXTENDS Integers, Sequences, FiniteSets, Bags, TLC

VARIABLES
    cons,     \* party -> InteractiveTxConstructor (or [made |-> FALSE])
    chan,     \* party -> the message in flight towards that party
    ret,      \* party -> what the party's last call returned
    calls,    \* SpecPeer: number of messages the peer has sent so far
    hist,     \* party -> what it and its peer contributed and did not remove
    before,   \* party -> the state its machine was in when its last call began
    sm,       \* SpecSM: a bare StateMachine
    smlog,    \* SpecSM: the last transitions applied to sm and the state before the last
    gen       \* SpecGen: the last call of generate_holder_serial_id

vars == <<cons, chan, ret, calls, hist, before, sm, smlog, gen>>

----------------------------------------------------------------------------
(* Bounds of the model *)

MaxEntropy == 2          \* the entropy source returns 1..MaxEntropy
MaxContributions == 3    \* Spec: inputs and outputs handed to the two constructors
MaxHolderInputs == 1     \* SpecPeer: local inputs handed to the constructor
MaxHolderOutputs == 1    \* SpecPeer: local outputs handed to the constructor
MaxPeerMsgs == 3         \* SpecPeer: messages the peer may send
MaxSmSteps == 4          \* SpecSM: transitions applied to the bare machine

----------------------------------------------------------------------------
(* Program constants *)

MAX_RECEIVED_TX_ADD_INPUT_COUNT == 4096
MAX_RECEIVED_TX_ADD_OUTPUT_COUNT == 4096
MAX_INPUTS_OUTPUTS_COUNT == 252
WITNESS_SCALE_FACTOR == 4
MAX_STANDARD_TX_WEIGHT == 400000
BASE_INPUT_WEIGHT == 160
EMPTY_SCRIPT_SIG_WEIGHT == 4
FEERATE_FLOOR_SATS_PER_KW == 253
\* 21_000_000 * 10^8 in the source; kept at one millionth of it so that it
\* stays below U64_MAX as it does in the program
TOTAL_BITCOIN_SUPPLY_SATOSHIS == 21000000 * 100
\* the largest amount the model represents (u64::MAX in the program)
U64_MAX == 2147483647

saturating_add(a, b) == IF a > U64_MAX - b THEN U64_MAX ELSE a + b
saturating_sub(a, b) == IF b > a THEN 0 ELSE a - b

Parties == {"A", "B"}
Other(p) == IF p = "A" THEN "B" ELSE "A"
IsInitiator(p) == p = "A"

----------------------------------------------------------------------------
(* Sequence numbers: u32 as [hi, lo] 16-bit halves *)

Sequence(hi, lo) == [hi |-> hi, lo |-> lo]
SeqGE_Strict(a, b) == a.hi > b.hi \/ (a.hi = b.hi /\ a.lo > b.lo)
SeqGE(a, b) == a.hi > b.hi \/ (a.hi = b.hi /\ a.lo >= b.lo)
SEQ_FFFFFFFE == Sequence(65535, 65534)
ENABLE_RBF_NO_LOCKTIME == Sequence(65535, 65533)
SEQUENCE_MAX == Sequence(65535, 65535)

----------------------------------------------------------------------------
(* Scripts, by name *)

Scripts == {"p2wsh", "p2wpkh", "p2tr", "p2sh", "funding", "empty", "v0other"}

\* length of the script in bytes ("funding" is a second P2WSH script,
\* "v0other" a version 0 witness program of 10 bytes)
ScriptLen(s) ==
    CASE s = "p2wpkh" -> 22
      [] s = "p2wsh" -> 34
      [] s = "funding" -> 34
      [] s = "p2tr" -> 34
      [] s = "p2sh" -> 23
      [] s = "v0other" -> 12
      [] OTHER -> 0

is_v0_p2wpkh(s) == s = "p2wpkh"
is_v0_p2wsh(s) == s \in {"p2wsh", "funding"}
is_witness_program(s) == s \in {"p2wpkh", "p2wsh", "funding", "p2tr", "v0other"}
\* witness version of a witness program, -1 when there is none
witness_version(s) == IF s = "p2tr" THEN 1 ELSE IF is_witness_program(s) THEN 0 ELSE -1

\* Script::dust_value: 3 sat/vB over the output plus the input spending it
dust_value(s) ==
    3 * ((IF is_witness_program(s) THEN 32 + 4 + 1 + 26 + 4 ELSE 32 + 4 + 1 + 107 + 4)
         + 8 + 1 + ScriptLen(s))

\* script_pubkey.consensus_encode: bytes written, length prefix included
consensus_encode_len(s) == 1 + ScriptLen(s)

\* chaininterface::fee_for_weight, rounded up
fee_for_weight(feerate_sat_per_1000_weight, weight) ==
    ((feerate_sat_per_1000_weight * weight) + 1000 - 1) \div 1000

----------------------------------------------------------------------------
(* Previous transactions; txid() is the transaction's name *)

TxOut(value, script) == [value |-> value, script_pubkey |-> script]
OutPoint(txid, vout) == [txid |-> txid, vout |-> vout]
TxIn(outpoint, sequence) == [previous_output |-> outpoint, sequence |-> sequence]

PrevTx1 == [txid |-> "t1", output |-> <<TxOut(1000000, "p2wsh"), TxOut(0, "p2sh")>>]
PrevTx2 == [txid |-> "t2", output |-> <<TxOut(100000, "p2wsh")>>]
\* the placeholder sent as prev_tx of a shared input: no inputs, no outputs
DummyPrevTx == [txid |-> "dummy", output |-> <<>>]
FundingTxid == "tf"

txid(tx) == tx.txid
\* Vec::get(vout as usize)
HasOutput(tx, vout) == vout + 1 \in DOMAIN tx.output
OutputAt(tx, vout) == tx.output[vout + 1]

NoSharedInput == [some |-> FALSE]
SharedFundingInput(txin, txout, to_remote, to_local) ==
    [some |-> TRUE, txin |-> txin, txout |-> txout,
     to_remote_value_satoshis |-> to_remote, to_local_value_satoshis |-> to_local]

----------------------------------------------------------------------------
(* Maps keyed by serial id (HashMap<SerialId, _>) *)

EmptyMap == [k \in {} |-> 0]
MapInsert(m, k, v) == [s \in DOMAIN m \cup {k} |-> IF s = k THEN v ELSE m[s]]
MapRemove_Clears(m, k) == [s \in DOMAIN m \ DOMAIN m |-> m[s]]
MapRemove(m, k) == [s \in DOMAIN m \ {k} |-> m[s]]

RECURSIVE SortedBetween(_, _, _)
\* the elements of S, all of them in lo..hi, in ascending order
SortedBetween(S, lo, hi) ==
    IF S = {} THEN <<>>
    ELSE IF lo = hi THEN <<lo>>
    ELSE SortedBetween({x \in S : x <= (lo + hi) \div 2}, lo, (lo + hi) \div 2)
         \o SortedBetween({x \in S : x > (lo + hi) \div 2}, (lo + hi) \div 2 + 1, hi)

\* the elements of a set of integers in ascending order
SetToSortedSeq(S) ==
    IF S = {} THEN <<>>
    ELSE SortedBetween(S, CHOOSE x \in S : \A y \in S : x <= y,
                          CHOOSE x \in S : \A y \in S : x >= y)

RECURSIVE SaturatingSum(_)
\* q[1].saturating_add(q[2]) ... over a sequence
SaturatingSum(q) ==
    IF Len(q) = 0 THEN 0
    ELSE IF Len(q) = 1 THEN q[1]
    ELSE saturating_add(SaturatingSum(SubSeq(q, 1, Len(q) \div 2)),
                        SaturatingSum(SubSeq(q, Len(q) \div 2 + 1, Len(q))))

\* saturating sum of f[k] over k in S
SumAlong(f, ids) == SaturatingSum([i \in 1..Len(ids) |-> f[ids[i]]])
SumOver(f, S) == SumAlong(f, SetToSortedSeq(S))

----------------------------------------------------------------------------
(* NegotiationContext *)

Ok(ctx) == [ok |-> TRUE, reason |-> "None", ctx |-> ctx]
Err(reason, ctx) == [ok |-> FALSE, reason |-> reason, ctx |-> ctx]

AbortReasons ==
    {"InvalidStateTransition", "UnexpectedCounterpartyMessage",
     "ReceivedTooManyTxAddInputs", "ReceivedTooManyTxAddOutputs",
     "IncorrectInputSequenceValue", "IncorrectSerialIdParity", "SerialIdUnknown",
     "DuplicateSerialId", "PrevTxOutInvalid", "ExceededMaximumSatsAllowed",
     "ExceededNumberOfInputsOrOutputs", "TransactionTooLarge", "BelowDustLimit",
     "InvalidOutputScript", "InsufficientFees", "OutputsValueExceedsInputsValue",
     "InvalidTx"}

is_for_initiator(serial_id) == serial_id % 2 = 0
is_for_non_initiator(serial_id) == ~is_for_initiator(serial_id)

NegotiationContext(feerate_sat_per_kw, is_initiator, tx_locktime, shared_funding_input, new_funding_output, remote_contribution_satoshis, local_contribution_satoshis) ==
    [holder_is_initiator |-> is_initiator,
     received_tx_add_input_count |-> 0,
     received_tx_add_output_count |-> 0,
     shared_funding_input |-> shared_funding_input,
     local_contribution_satoshis |-> local_contribution_satoshis,
     remote_contribution_satoshis |-> remote_contribution_satoshis,
     new_funding_output |-> new_funding_output,
     inputs |-> EmptyMap,
     prevtx_outpoints |-> {},
     outputs |-> EmptyMap,
     tx_locktime |-> tx_locktime,
     feerate_sat_per_kw |-> feerate_sat_per_kw]

\* i64::MAX and i64::MIN: a signed amount is one bit narrower than U64_MAX
I64_MAX == (U64_MAX - 1) \div 2
I64_MIN == 0 - I64_MAX - 1

\* i64::saturating_add
i64_saturating_add(a, b) ==
    IF a + b > I64_MAX THEN I64_MAX ELSE IF a + b < I64_MIN THEN I64_MIN ELSE a + b

\* i64::saturating_abs: i64::MIN has no positive counterpart and gives i64::MAX
saturating_abs(x) == IF x = I64_MIN THEN I64_MAX ELSE IF x < 0 THEN 0 - x ELSE x

\* i64::unsigned_abs
unsigned_abs(x) == IF x < 0 THEN 0 - x ELSE x

new_funding_output_value_satoshis(ctx) ==
    LET shared_funding_input_value ==
            IF ctx.shared_funding_input.some THEN ctx.shared_funding_input.txout.value ELSE 0
        contribution == i64_saturating_add(ctx.local_contribution_satoshis,
                                              ctx.remote_contribution_satoshis)
    IN IF contribution < 0
       THEN saturating_sub(shared_funding_input_value, unsigned_abs(saturating_abs(contribution)))
       ELSE saturating_add(shared_funding_input_value, unsigned_abs(saturating_abs(contribution)))

funding_output_remote_value_satoshis(ctx) ==
    LET remote_shared_input_value ==
            IF ctx.shared_funding_input.some
            THEN ctx.shared_funding_input.to_remote_value_satoshis ELSE 0
    IN IF ctx.remote_contribution_satoshis < 0
       THEN saturating_sub(remote_shared_input_value,
                           unsigned_abs(saturating_abs(ctx.remote_contribution_satoshis)))
       ELSE saturating_add(remote_shared_input_value,
                           unsigned_abs(saturating_abs(ctx.remote_contribution_satoshis)))

funding_output_local_value_satoshis(ctx) ==
    LET local_shared_input_value ==
            IF ctx.shared_funding_input.some
            THEN ctx.shared_funding_input.to_local_value_satoshis ELSE 0
    IN IF ctx.local_contribution_satoshis < 0
       THEN saturating_sub(local_shared_input_value,
                           unsigned_abs(saturating_abs(ctx.local_contribution_satoshis)))
       ELSE saturating_add(local_shared_input_value,
                           unsigned_abs(saturating_abs(ctx.local_contribution_satoshis)))

is_serial_id_valid_for_counterparty_AnyParity(ctx, serial_id) == TRUE

\* A received serial id's parity must match the role of the counterparty
is_serial_id_valid_for_counterparty(ctx, serial_id) ==
    ctx.holder_is_initiator = is_for_non_initiator(serial_id)

counterparty_inputs_contributed(ctx) ==
    {s \in DOMAIN ctx.inputs : is_serial_id_valid_for_counterparty(ctx, s)}

counterparty_outputs_contributed(ctx) ==
    {s \in DOMAIN ctx.outputs : is_serial_id_valid_for_counterparty(ctx, s)}

LocalInput(serial_id, txin, prev_tx, prevout_value) ==
    [kind |-> "Local", serial_id |-> serial_id, txin |-> txin, prev_tx |-> prev_tx,
     prevout_value |-> prevout_value]
RemoteInput(serial_id, txin, prev_tx, prevout_value) ==
    [kind |-> "Remote", serial_id |-> serial_id, txin |-> txin, prev_tx |-> prev_tx,
     prevout_value |-> prevout_value]
SharedInput(serial_id, txin, prevout_value, to_remote, to_local) ==
    [kind |-> "Shared", serial_id |-> serial_id, txin |-> txin,
     prevout_value |-> prevout_value,
     to_remote_value_satoshis |-> to_remote, to_local_value_satoshis |-> to_local]
LocalOutput(serial_id, txout) == [kind |-> "Local", serial_id |-> serial_id, txout |-> txout]
RemoteOutput(serial_id, txout) == [kind |-> "Remote", serial_id |-> serial_id, txout |-> txout]
SharedOutput(serial_id, txout, to_remote, to_local) ==
    [kind |-> "Shared", serial_id |-> serial_id, txout |-> txout,
     to_remote_value_satoshis |-> to_remote, to_local_value_satoshis |-> to_local]

\* the SharedInput built from the context's shared-input descriptor (zeroes without one)
SharedInputFromContext(ctx, serial_id, txin) ==
    LET sfi == ctx.shared_funding_input
    IN SharedInput(serial_id, txin,
                   IF sfi.some THEN sfi.txout.value ELSE 0,
                   IF sfi.some THEN sfi.to_remote_value_satoshis ELSE 0,
                   IF sfi.some THEN sfi.to_local_value_satoshis ELSE 0)

received_tx_add_input(ctx, msg) ==
    LET c1 == [ctx EXCEPT !.received_tx_add_input_count = @ + 1]
        transaction == msg.prevtx
        id == IF msg.shared_input_txid # "none" THEN msg.shared_input_txid
              ELSE txid(transaction)
        has == HasOutput(transaction, msg.prevtx_out)
        prev_outpoint == OutPoint(id, msg.prevtx_out)
        \* line 231: the outpoint enters the dedup set before the serial id is looked at
        c2 == IF has THEN [c1 EXCEPT !.prevtx_outpoints = @ \cup {prev_outpoint}] ELSE c1
        txin == TxIn(prev_outpoint, msg.sequence)
        is_shared == /\ msg.shared_input_txid # "none"
                     /\ ctx.shared_funding_input.some
                     /\ msg.shared_input_txid
                          = ctx.shared_funding_input.txin.previous_output.txid
        input == IF is_shared THEN SharedInputFromContext(ctx, msg.serial_id, txin)
                 ELSE RemoteInput(msg.serial_id, txin, msg.prevtx,
                                  OutputAt(msg.prevtx, msg.prevtx_out).value)
    IN IF ~is_serial_id_valid_for_counterparty(ctx, msg.serial_id)
       THEN Err("IncorrectSerialIdParity", ctx)
       ELSE IF c1.received_tx_add_input_count > MAX_RECEIVED_TX_ADD_INPUT_COUNT
       THEN Err("ReceivedTooManyTxAddInputs", c1)
       ELSE IF SeqGE(msg.sequence, SEQ_FFFFFFFE)
       THEN Err("IncorrectInputSequenceValue", c1)
       ELSE IF has /\ ~is_witness_program(OutputAt(transaction, msg.prevtx_out).script_pubkey)
       THEN Err("PrevTxOutInvalid", c1)
       ELSE IF has /\ prev_outpoint \in c1.prevtx_outpoints
       THEN Err("PrevTxOutInvalid", c1)
       ELSE IF ~has /\ msg.shared_input_txid = "none"
       THEN Err("PrevTxOutInvalid", c1)
       ELSE IF msg.serial_id \in DOMAIN c2.inputs
       THEN Err("DuplicateSerialId", c2)
       ELSE IF ~is_shared /\ ~has
       THEN Err("PrevTxOutInvalid", c2)
       ELSE Ok([c2 EXCEPT !.inputs = MapInsert(@, msg.serial_id, input),
                          !.prevtx_outpoints = @ \cup {prev_outpoint}])

received_tx_remove_input_Uncounts(ctx, msg) ==
    IF ~is_serial_id_valid_for_counterparty(ctx, msg.serial_id)
    THEN Err("IncorrectSerialIdParity", ctx)
    ELSE IF msg.serial_id \notin DOMAIN ctx.inputs
    THEN Err("SerialIdUnknown", ctx)
    ELSE Ok([ctx EXCEPT !.inputs = MapRemove(@, msg.serial_id),
                        !.received_tx_add_input_count = @ - 1])

received_tx_remove_input(ctx, msg) ==
    IF ~is_serial_id_valid_for_counterparty(ctx, msg.serial_id)
    THEN Err("IncorrectSerialIdParity", ctx)
    ELSE IF msg.serial_id \notin DOMAIN ctx.inputs
    THEN Err("SerialIdUnknown", ctx)
    ELSE Ok([ctx EXCEPT !.inputs = MapRemove(@, msg.serial_id)])

received_tx_add_output_Replaces(ctx, msg) ==
    LET c1 == [ctx EXCEPT !.received_tx_add_output_count = @ + 1]
        outputs_value == SumOver([s \in DOMAIN ctx.outputs |-> ctx.outputs[s].txout.value],
                                 DOMAIN ctx.outputs)
        txout == TxOut(msg.sats, msg.script)
        output == IF msg.script = ctx.new_funding_output.script_pubkey
                  THEN SharedOutput(msg.serial_id, txout,
                                    funding_output_remote_value_satoshis(ctx),
                                    funding_output_local_value_satoshis(ctx))
                  ELSE RemoteOutput(msg.serial_id, txout)
    IN IF ~is_serial_id_valid_for_counterparty(ctx, msg.serial_id)
       THEN Err("IncorrectSerialIdParity", ctx)
       ELSE IF c1.received_tx_add_output_count > MAX_RECEIVED_TX_ADD_OUTPUT_COUNT
       THEN Err("ReceivedTooManyTxAddOutputs", c1)
       ELSE IF msg.sats < dust_value(msg.script)
       THEN Err("BelowDustLimit", c1)
       ELSE IF saturating_add(outputs_value, msg.sats) > TOTAL_BITCOIN_SUPPLY_SATOSHIS
       THEN Err("ExceededMaximumSatsAllowed", c1)
       ELSE IF ~(\/ is_v0_p2wpkh(msg.script)
                 \/ is_v0_p2wsh(msg.script)
                 \/ (is_witness_program(msg.script) /\ witness_version(msg.script) >= 1))
       THEN Err("InvalidOutputScript", c1)
       ELSE Ok([c1 EXCEPT !.outputs = MapInsert(@, msg.serial_id, output)])

received_tx_add_output_ScriptFirst(ctx, msg) ==
    LET c1 == [ctx EXCEPT !.received_tx_add_output_count = @ + 1]
        outputs_value == SumOver([s \in DOMAIN ctx.outputs |-> ctx.outputs[s].txout.value],
                                 DOMAIN ctx.outputs)
        txout == TxOut(msg.sats, msg.script)
        output == IF msg.script = ctx.new_funding_output.script_pubkey
                  THEN SharedOutput(msg.serial_id, txout,
                                    funding_output_remote_value_satoshis(ctx),
                                    funding_output_local_value_satoshis(ctx))
                  ELSE RemoteOutput(msg.serial_id, txout)
    IN IF ~is_serial_id_valid_for_counterparty(ctx, msg.serial_id)
       THEN Err("IncorrectSerialIdParity", ctx)
       ELSE IF c1.received_tx_add_output_count > MAX_RECEIVED_TX_ADD_OUTPUT_COUNT
       THEN Err("ReceivedTooManyTxAddOutputs", c1)
       ELSE IF ~(\/ is_v0_p2wpkh(msg.script)
                 \/ is_v0_p2wsh(msg.script)
                 \/ (is_witness_program(msg.script) /\ witness_version(msg.script) >= 1))
       THEN Err("InvalidOutputScript", c1)
       ELSE IF msg.sats < dust_value(msg.script)
       THEN Err("BelowDustLimit", c1)
       ELSE IF saturating_add(outputs_value, msg.sats) > TOTAL_BITCOIN_SUPPLY_SATOSHIS
       THEN Err("ExceededMaximumSatsAllowed", c1)
       ELSE IF msg.serial_id \in DOMAIN c1.outputs
       THEN Err("DuplicateSerialId", c1)
       ELSE Ok([c1 EXCEPT !.outputs = MapInsert(@, msg.serial_id, output)])

received_tx_add_output(ctx, msg) ==
    LET c1 == [ctx EXCEPT !.received_tx_add_output_count = @ + 1]
        outputs_value == SumOver([s \in DOMAIN ctx.outputs |-> ctx.outputs[s].txout.value],
                                 DOMAIN ctx.outputs)
        txout == TxOut(msg.sats, msg.script)
        output == IF msg.script = ctx.new_funding_output.script_pubkey
                  THEN SharedOutput(msg.serial_id, txout,
                                    funding_output_remote_value_satoshis(ctx),
                                    funding_output_local_value_satoshis(ctx))
                  ELSE RemoteOutput(msg.serial_id, txout)
    IN IF ~is_serial_id_valid_for_counterparty(ctx, msg.serial_id)
       THEN Err("IncorrectSerialIdParity", ctx)
       ELSE IF c1.received_tx_add_output_count > MAX_RECEIVED_TX_ADD_OUTPUT_COUNT
       THEN Err("ReceivedTooManyTxAddOutputs", c1)
       ELSE IF msg.sats < dust_value(msg.script)
       THEN Err("BelowDustLimit", c1)
       ELSE IF saturating_add(outputs_value, msg.sats) > TOTAL_BITCOIN_SUPPLY_SATOSHIS
       THEN Err("ExceededMaximumSatsAllowed", c1)
       ELSE IF ~(\/ is_v0_p2wpkh(msg.script)
                 \/ is_v0_p2wsh(msg.script)
                 \/ (is_witness_program(msg.script) /\ witness_version(msg.script) >= 1))
       THEN Err("InvalidOutputScript", c1)
       ELSE IF msg.serial_id \in DOMAIN c1.outputs
       THEN Err("DuplicateSerialId", c1)
       ELSE Ok([c1 EXCEPT !.outputs = MapInsert(@, msg.serial_id, output)])

received_tx_remove_output_UnknownFirst(ctx, msg) ==
    IF msg.serial_id \notin DOMAIN ctx.outputs
    THEN Err("SerialIdUnknown", ctx)
    ELSE IF ~is_serial_id_valid_for_counterparty(ctx, msg.serial_id)
    THEN Err("IncorrectSerialIdParity", ctx)
    ELSE Ok([ctx EXCEPT !.outputs = MapRemove(@, msg.serial_id)])

received_tx_remove_output(ctx, msg) ==
    IF ~is_serial_id_valid_for_counterparty(ctx, msg.serial_id)
    THEN Err("IncorrectSerialIdParity", ctx)
    ELSE IF msg.serial_id \in DOMAIN ctx.outputs
    THEN Ok([ctx EXCEPT !.outputs = MapRemove(@, msg.serial_id)])
    ELSE Err("SerialIdUnknown", ctx)

sent_tx_add_input_KeepsMessageTxin(ctx, msg) ==
    LET tx == msg.prevtx
        txin == TxIn(OutPoint(txid(tx), msg.prevtx_out), msg.sequence)
        c1 == [ctx EXCEPT !.prevtx_outpoints = @ \cup {txin.previous_output}]
        input == IF msg.shared_input_txid # "none"
                 THEN SharedInputFromContext(ctx, msg.serial_id, txin)
                 ELSE LocalInput(msg.serial_id, txin, msg.prevtx,
                                 OutputAt(msg.prevtx, msg.prevtx_out).value)
    IN IF txin.previous_output \in ctx.prevtx_outpoints
       THEN Err("PrevTxOutInvalid", ctx)
       ELSE IF msg.shared_input_txid = "none" /\ ~HasOutput(msg.prevtx, msg.prevtx_out)
       THEN Err("PrevTxOutInvalid", c1)
       ELSE Ok([c1 EXCEPT !.inputs = MapInsert(@, msg.serial_id, input)])

sent_tx_add_input(ctx, msg) ==
    LET tx == msg.prevtx
        txin == TxIn(OutPoint(txid(tx), msg.prevtx_out), msg.sequence)
        c1 == [ctx EXCEPT !.prevtx_outpoints = @ \cup {txin.previous_output}]
        input == IF msg.shared_input_txid # "none"
                 THEN SharedInputFromContext(ctx, msg.serial_id,
                          IF ctx.shared_funding_input.some
                          THEN ctx.shared_funding_input.txin ELSE txin)
                 ELSE LocalInput(msg.serial_id, txin, msg.prevtx,
                                 OutputAt(msg.prevtx, msg.prevtx_out).value)
    IN IF txin.previous_output \in ctx.prevtx_outpoints
       THEN Err("PrevTxOutInvalid", ctx)
       ELSE IF msg.shared_input_txid = "none" /\ ~HasOutput(msg.prevtx, msg.prevtx_out)
       THEN Err("PrevTxOutInvalid", c1)
       ELSE Ok([c1 EXCEPT !.inputs = MapInsert(@, msg.serial_id, input)])

sent_tx_add_output(ctx, msg) ==
    LET txout == TxOut(msg.sats, msg.script)
        output == IF msg.script = ctx.new_funding_output.script_pubkey
                  THEN SharedOutput(msg.serial_id, txout,
                                    funding_output_remote_value_satoshis(ctx),
                                    funding_output_local_value_satoshis(ctx))
                  ELSE LocalOutput(msg.serial_id, txout)
    IN Ok([ctx EXCEPT !.outputs = MapInsert(@, msg.serial_id, output)])

sent_tx_remove_input(ctx, msg) ==
    Ok([ctx EXCEPT !.inputs = MapRemove(@, msg.serial_id)])

sent_tx_remove_output(ctx, msg) ==
    Ok([ctx EXCEPT !.outputs = MapRemove(@, msg.serial_id)])

\* bytes of a compact-size count below 253
VarIntLen(n) == IF n < 253 THEN 1 ELSE 3

RECURSIVE SumSeq(_)
SumSeq(q) ==
    IF Len(q) = 0 THEN 0
    ELSE IF Len(q) = 1 THEN q[1]
    ELSE SumSeq(SubSeq(q, 1, Len(q) \div 2)) + SumSeq(SubSeq(q, Len(q) \div 2 + 1, Len(q)))

\* Transaction::weight of a transaction without witnesses
TxWeight(tx) ==
    WITNESS_SCALE_FACTOR *
      (4 + VarIntLen(Len(tx.input)) + 41 * Len(tx.input)
         + VarIntLen(Len(tx.output))
         + SumSeq([i \in 1..Len(tx.output) |->
                      8 + consensus_encode_len(tx.output[i].script_pubkey)])
         + 4)

InputValueForCounterparty(input) ==
    IF input.kind = "Shared" THEN input.to_remote_value_satoshis ELSE input.prevout_value

OutputValueForCounterparty_IgnoresShare(output) == output.txout.value

OutputValueForCounterparty(output) ==
    IF output.kind = "Shared" THEN output.to_remote_value_satoshis ELSE output.txout.value

\* inputs.sort_unstable_by_key(serial_id), then the entries' txin (txout)
SortedBySerialId(m, field) ==
    LET ids == SetToSortedSeq(DOMAIN m)
    IN [i \in 1..Len(ids) |-> m[ids[i]][field]]

INPUT_WEIGHT_NoScriptSig == BASE_INPUT_WEIGHT

INPUT_WEIGHT == BASE_INPUT_WEIGHT + EMPTY_SCRIPT_SIG_WEIGHT

tx_common_fields_weight == (4 + 4 + 1 + 1) * WITNESS_SCALE_FACTOR + 2

build_transaction_NonInitiatorPays(ctx) ==
    LET cin == counterparty_inputs_contributed(ctx)
        cout == counterparty_outputs_contributed(ctx)
        counterparty_value_in ==
            SumOver([s \in cin |-> InputValueForCounterparty(ctx.inputs[s])], cin)
        counterparty_value_out ==
            SumOver([s \in cout |-> OutputValueForCounterparty(ctx.outputs[s])], cout)
        counterparty_weight_contributed ==
            SumOver([s \in cout |->
                       (8 + consensus_encode_len(ctx.outputs[s].txout.script_pubkey))
                         * WITNESS_SCALE_FACTOR], cout)
            + Cardinality(cin) * INPUT_WEIGHT
        counterparty_fees_contributed ==
            saturating_sub(counterparty_value_in, counterparty_value_out)
        required_counterparty_contribution_fee ==
            fee_for_weight(ctx.feerate_sat_per_kw, counterparty_weight_contributed)
            + (IF ctx.holder_is_initiator
               THEN fee_for_weight(ctx.feerate_sat_per_kw, tx_common_fields_weight)
               ELSE 0)
        tx_to_validate ==
            [version |-> 2,
             lock_time |-> ctx.tx_locktime,
             input |-> SortedBySerialId(ctx.inputs, "txin"),
             output |-> SortedBySerialId(ctx.outputs, "txout")]
        fail(reason) == [ok |-> FALSE, reason |-> reason, tx |-> tx_to_validate]
    IN IF counterparty_value_in < counterparty_value_out
       THEN fail("OutputsValueExceedsInputsValue")
       ELSE IF \/ Cardinality(DOMAIN ctx.inputs) > MAX_INPUTS_OUTPUTS_COUNT
               \/ Cardinality(DOMAIN ctx.outputs) > MAX_INPUTS_OUTPUTS_COUNT
       THEN fail("ExceededNumberOfInputsOrOutputs")
       ELSE IF counterparty_fees_contributed < required_counterparty_contribution_fee
       THEN fail("InsufficientFees")
       ELSE IF TxWeight(tx_to_validate) > MAX_STANDARD_TX_WEIGHT
       THEN fail("TransactionTooLarge")
       ELSE [ok |-> TRUE, reason |-> "None", tx |-> tx_to_validate]

build_transaction(ctx) ==
    LET cin == counterparty_inputs_contributed(ctx)
        cout == counterparty_outputs_contributed(ctx)
        counterparty_value_in ==
            SumOver([s \in cin |-> InputValueForCounterparty(ctx.inputs[s])], cin)
        counterparty_value_out ==
            SumOver([s \in cout |-> OutputValueForCounterparty(ctx.outputs[s])], cout)
        counterparty_weight_contributed ==
            SumOver([s \in cout |->
                       (8 + consensus_encode_len(ctx.outputs[s].txout.script_pubkey))
                         * WITNESS_SCALE_FACTOR], cout)
            + Cardinality(cin) * INPUT_WEIGHT
        counterparty_fees_contributed ==
            saturating_sub(counterparty_value_in, counterparty_value_out)
        required_counterparty_contribution_fee ==
            fee_for_weight(ctx.feerate_sat_per_kw, counterparty_weight_contributed)
            + (IF ~ctx.holder_is_initiator
               THEN fee_for_weight(ctx.feerate_sat_per_kw, tx_common_fields_weight)
               ELSE 0)
        tx_to_validate ==
            [version |-> 2,
             lock_time |-> ctx.tx_locktime,
             input |-> SortedBySerialId(ctx.inputs, "txin"),
             output |-> SortedBySerialId(ctx.outputs, "txout")]
        fail(reason) == [ok |-> FALSE, reason |-> reason, tx |-> tx_to_validate]
    IN IF counterparty_value_in < counterparty_value_out
       THEN fail("OutputsValueExceedsInputsValue")
       ELSE IF \/ Cardinality(DOMAIN ctx.inputs) > MAX_INPUTS_OUTPUTS_COUNT
               \/ Cardinality(DOMAIN ctx.outputs) > MAX_INPUTS_OUTPUTS_COUNT
       THEN fail("ExceededNumberOfInputsOrOutputs")
       ELSE IF counterparty_fees_contributed < required_counterparty_contribution_fee
       THEN fail("InsufficientFees")
       ELSE IF TxWeight(tx_to_validate) > MAX_STANDARD_TX_WEIGHT
       THEN fail("TransactionTooLarge")
       ELSE [ok |-> TRUE, reason |-> "None", tx |-> tx_to_validate]

----------------------------------------------------------------------------
(* StateMachine: [tag, ctx] for the four negotiating states,               *)
(* [tag, tx] for NegotiationComplete, [tag, reason] for NegotiationAborted *)

SentChangeMsg(ctx) == [tag |-> "SentChangeMsg", ctx |-> ctx]
ReceivedChangeMsg(ctx) == [tag |-> "ReceivedChangeMsg", ctx |-> ctx]
NegotiationComplete(tx) == [tag |-> "NegotiationComplete", tx |-> tx]
NegotiationAborted(reason) == [tag |-> "NegotiationAborted", reason |-> reason]
Indeterminate == [tag |-> "Indeterminate"]

SentMsgStates == {"SentChangeMsg", "SentTxComplete"}
ReceivedMsgStates == {"ReceivedChangeMsg", "ReceivedTxComplete"}
StateTags == SentMsgStates \cup ReceivedMsgStates
               \cup {"NegotiationComplete", "NegotiationAborted", "Indeterminate"}

\* define_state_transitions!(SENT_MSG_STATE | RECEIVED_MSG_STATE, ...):
\* run the context mutator, then wrap the context in the new state
ChangeTransition(res, to) ==
    [ok |-> res.ok, reason |-> res.reason, state |-> [tag |-> to, ctx |-> res.ctx]]

TxCompleteTransition_SkipsBuildResult(s, to) ==
    IF to = "NegotiationComplete"
    THEN [ok |-> TRUE, reason |-> "None",
          state |-> NegotiationComplete(build_transaction(s.ctx).tx)]
    ELSE [ok |-> TRUE, reason |-> "None", state |-> [tag |-> to, ctx |-> s.ctx]]

\* define_state_transitions!(TX_COMPLETE, from, tx_complete_state)
TxCompleteTransition(s, to) ==
    IF to = "NegotiationComplete"
    THEN LET b == build_transaction(s.ctx)
         IN [ok |-> b.ok, reason |-> b.reason, state |-> NegotiationComplete(b.tx)]
    ELSE [ok |-> TRUE, reason |-> "None", state |-> [tag |-> to, ctx |-> s.ctx]]

MatchArm_LosesReason(r) ==
    IF r.ok THEN r.state ELSE NegotiationAborted("UnexpectedCounterpartyMessage")

\* define_state_machine_transitions!, the arm of a FROM state:
\* match s.transition(msg) { Ok(new) => TO(new), Err(reason) => NegotiationAborted(reason) }
MatchArm(r) == IF r.ok THEN r.state ELSE NegotiationAborted(r.reason)

CatchAllArm_Stays(s) == s

\* define_state_machine_transitions!, the arm of every other state
CatchAllArm(s) == NegotiationAborted("UnexpectedCounterpartyMessage")

StateMachine_new_RolesSwapped(feerate_sat_per_kw, is_initiator, tx_locktime, shared_funding_input, new_funding_output, remote_contribution_satoshis, local_contribution_satoshis) ==
    LET context == NegotiationContext(feerate_sat_per_kw, is_initiator, tx_locktime,
                                      shared_funding_input, new_funding_output,
                                      remote_contribution_satoshis,
                                      local_contribution_satoshis)
    IN IF is_initiator THEN SentChangeMsg(context) ELSE ReceivedChangeMsg(context)

StateMachine_new(feerate_sat_per_kw, is_initiator, tx_locktime, shared_funding_input, new_funding_output, remote_contribution_satoshis, local_contribution_satoshis) ==
    LET context == NegotiationContext(feerate_sat_per_kw, is_initiator, tx_locktime,
                                      shared_funding_input, new_funding_output,
                                      remote_contribution_satoshis,
                                      local_contribution_satoshis)
    IN IF is_initiator THEN ReceivedChangeMsg(context) ELSE SentChangeMsg(context)

\* the FROM => TO pairs of each define_state_machine_transitions! invocation
SentChangeTable ==
    [ReceivedChangeMsg |-> "SentChangeMsg", ReceivedTxComplete |-> "SentChangeMsg"]
ReceivedChangeTable ==
    [SentChangeMsg |-> "ReceivedChangeMsg", SentTxComplete |-> "ReceivedChangeMsg"]

SentTxCompleteTable_NeverCompletes ==
    [ReceivedChangeMsg |-> "SentTxComplete", ReceivedTxComplete |-> "SentTxComplete"]

SentTxCompleteTable ==
    [ReceivedChangeMsg |-> "SentTxComplete", ReceivedTxComplete |-> "NegotiationComplete"]

ReceivedTxCompleteTable_CompletesEarly ==
    [SentChangeMsg |-> "NegotiationComplete", SentTxComplete |-> "NegotiationComplete"]

ReceivedTxCompleteTable ==
    [SentChangeMsg |-> "ReceivedTxComplete", SentTxComplete |-> "NegotiationComplete"]

StateMachine_sent_tx_add_input(s, msg) ==
    IF s.tag \in DOMAIN SentChangeTable
    THEN MatchArm(ChangeTransition(sent_tx_add_input(s.ctx, msg), SentChangeTable[s.tag]))
    ELSE CatchAllArm(s)
StateMachine_received_tx_add_input(s, msg) ==
    IF s.tag \in DOMAIN ReceivedChangeTable
    THEN MatchArm(ChangeTransition(received_tx_add_input(s.ctx, msg), ReceivedChangeTable[s.tag]))
    ELSE CatchAllArm(s)
StateMachine_sent_tx_add_output(s, msg) ==
    IF s.tag \in DOMAIN SentChangeTable
    THEN MatchArm(ChangeTransition(sent_tx_add_output(s.ctx, msg), SentChangeTable[s.tag]))
    ELSE CatchAllArm(s)
StateMachine_received_tx_add_output(s, msg) ==
    IF s.tag \in DOMAIN ReceivedChangeTable
    THEN MatchArm(ChangeTransition(received_tx_add_output(s.ctx, msg), ReceivedChangeTable[s.tag]))
    ELSE CatchAllArm(s)
StateMachine_sent_tx_remove_input(s, msg) ==
    IF s.tag \in DOMAIN SentChangeTable
    THEN MatchArm(ChangeTransition(sent_tx_remove_input(s.ctx, msg), SentChangeTable[s.tag]))
    ELSE CatchAllArm(s)
StateMachine_received_tx_remove_input(s, msg) ==
    IF s.tag \in DOMAIN ReceivedChangeTable
    THEN MatchArm(ChangeTransition(received_tx_remove_input(s.ctx, msg), ReceivedChangeTable[s.tag]))
    ELSE CatchAllArm(s)
StateMachine_sent_tx_remove_output(s, msg) ==
    IF s.tag \in DOMAIN SentChangeTable
    THEN MatchArm(ChangeTransition(sent_tx_remove_output(s.ctx, msg), SentChangeTable[s.tag]))
    ELSE CatchAllArm(s)
StateMachine_received_tx_remove_output(s, msg) ==
    IF s.tag \in DOMAIN ReceivedChangeTable
    THEN MatchArm(ChangeTransition(received_tx_remove_output(s.ctx, msg), ReceivedChangeTable[s.tag]))
    ELSE CatchAllArm(s)
StateMachine_sent_tx_complete(s, msg) ==
    IF s.tag \in DOMAIN SentTxCompleteTable
    THEN MatchArm(TxCompleteTransition(s, SentTxCompleteTable[s.tag]))
    ELSE CatchAllArm(s)
StateMachine_received_tx_complete(s, msg) ==
    IF s.tag \in DOMAIN ReceivedTxCompleteTable
    THEN MatchArm(TxCompleteTransition(s, ReceivedTxCompleteTable[s.tag]))
    ELSE CatchAllArm(s)

----------------------------------------------------------------------------
(* Wire messages *)

TxAddInput(serial_id, prevtx, prevtx_out, sequence, shared_input_txid) ==
    [type |-> "tx_add_input", serial_id |-> serial_id, prevtx |-> prevtx,
     prevtx_out |-> prevtx_out, sequence |-> sequence,
     shared_input_txid |-> shared_input_txid]
TxAddOutput(serial_id, sats, script) ==
    [type |-> "tx_add_output", serial_id |-> serial_id, sats |-> sats, script |-> script]
TxRemoveInput(serial_id) == [type |-> "tx_remove_input", serial_id |-> serial_id]
TxRemoveOutput(serial_id) == [type |-> "tx_remove_output", serial_id |-> serial_id]
TxComplete == [type |-> "tx_complete"]
NoMsg == [type |-> "none"]

\* the transition of the state machine a message of this type stands for
StateMachine_received(s, msg) ==
    CASE msg.type = "tx_add_input" -> StateMachine_received_tx_add_input(s, msg)
      [] msg.type = "tx_add_output" -> StateMachine_received_tx_add_output(s, msg)
      [] msg.type = "tx_remove_input" -> StateMachine_received_tx_remove_input(s, msg)
      [] msg.type = "tx_remove_output" -> StateMachine_received_tx_remove_output(s, msg)
      [] msg.type = "tx_complete" -> StateMachine_received_tx_complete(s, msg)

----------------------------------------------------------------------------
(* InteractiveTxConstructor *)

Constructor(state_machine, inputs, outputs) ==
    [made |-> TRUE, state_machine |-> state_machine,
     inputs_to_contribute |-> inputs, outputs_to_contribute |-> outputs]
NotMade == [made |-> FALSE]

\* values returned to the caller
OkSend(msg) == [kind |-> "Ok", msg |-> msg]
ErrRet(reason) == [kind |-> "Err", reason |-> reason]
SendTxMessage(msg) == [kind |-> "SendTxMessage", msg |-> msg]
SendTxComplete(msg, tx) == [kind |-> "SendTxComplete", msg |-> msg, tx |-> tx]
RetNegotiationComplete(tx) == [kind |-> "NegotiationComplete", tx |-> tx]
NoRet == [kind |-> "None"]

do_state_transition_NeverErr(self, new_state_machine) ==
    [self |-> [self EXCEPT !.state_machine = new_state_machine],
     ok |-> TRUE, reason |-> "None"]

\* do_state_transition!: store the new state, Err(reason) iff it is NegotiationAborted
do_state_transition(self, new_state_machine) ==
    [self |-> [self EXCEPT !.state_machine = new_state_machine],
     ok |-> new_state_machine.tag # "NegotiationAborted",
     reason |-> IF new_state_machine.tag = "NegotiationAborted"
                THEN new_state_machine.reason ELSE "None"]

generate_holder_serial_id_AddsOne(rand, is_initiator) ==
    IF is_for_initiator(rand) # is_initiator THEN rand + 1 ELSE rand

\* u64::from_be_bytes(first 8 bytes), low bit forced to the holder's parity
generate_holder_serial_id(rand, is_initiator) ==
    IF is_for_initiator(rand) # is_initiator
    THEN (IF rand % 2 = 0 THEN rand + 1 ELSE rand - 1)
    ELSE rand

RECURSIVE from_be_bytes(_)
\* u64::from_be_bytes: the first byte is the most significant
from_be_bytes(bytes) ==
    IF bytes = <<>> THEN 0
    ELSE from_be_bytes(SubSeq(bytes, 1, Len(bytes) - 1)) * 256 + bytes[Len(bytes)]

\* bytes of a serial id: 8 in the program, 3 here so that every id is a TLC integer
SERIAL_ID_BYTES == 3
\* bytes get_secure_random_bytes returns: 32 in the program
ENTROPY_BYTES == SERIAL_ID_BYTES + 1

\* generate_holder_serial_id from the bytes of the entropy source on
SerialIdFromEntropy(rand_bytes, is_initiator) ==
    generate_holder_serial_id(from_be_bytes(SubSeq(rand_bytes, 1, SERIAL_ID_BYTES)),
                              is_initiator)

PopRest_Keeps(q) == q

\* Vec::pop takes the last element
PopRest(q) == SubSeq(q, 1, Len(q) - 1)
PopLast(q) == q[Len(q)]

\* the tx_add_input message of a pending input: a shared input travels with a
\* placeholder prev_tx and the txid of the funding transaction it spends
TxAddInputFor(input) ==
    IF input.kind = "Shared"
    THEN TxAddInput(input.serial_id, DummyPrevTx, input.txin.previous_output.vout,
                    input.txin.sequence, input.txin.previous_output.txid)
    ELSE TxAddInput(input.serial_id, input.prev_tx, input.txin.previous_output.vout,
                    input.txin.sequence, "none")

\* the tx_add_output message of a pending output
TxAddOutputFor(output) ==
    TxAddOutput(output.serial_id, output.txout.value, output.txout.script_pubkey)

\* `do_state_transition!(..)?; Ok(value)`: the transition's error, else value
OkAfter(t, value) ==
    [self |-> t.self, ret |-> IF t.ok THEN value ELSE ErrRet(t.reason)]

maybe_send_message_SwallowsErr(self) ==
    IF self.inputs_to_contribute # <<>>
    THEN LET input == PopLast(self.inputs_to_contribute)
             popped == [self EXCEPT !.inputs_to_contribute = PopRest(@)]
             msg == TxAddInputFor(input)
         IN [self |-> do_state_transition(popped,
                          StateMachine_sent_tx_add_input(popped.state_machine, msg)).self,
             ret |-> OkSend(msg)]
    ELSE IF self.outputs_to_contribute # <<>>
    THEN LET output == PopLast(self.outputs_to_contribute)
             popped == [self EXCEPT !.outputs_to_contribute = PopRest(@)]
             msg == TxAddOutputFor(output)
         IN [self |-> do_state_transition(popped,
                          StateMachine_sent_tx_add_output(popped.state_machine, msg)).self,
             ret |-> OkSend(msg)]
    ELSE [self |-> do_state_transition(self,
                       StateMachine_sent_tx_complete(self.state_machine, TxComplete)).self,
          ret |-> OkSend(TxComplete)]

maybe_send_message(self) ==
    IF self.inputs_to_contribute # <<>>
    THEN LET input == PopLast(self.inputs_to_contribute)
             popped == [self EXCEPT !.inputs_to_contribute = PopRest(@)]
             msg == TxAddInputFor(input)
         IN OkAfter(do_state_transition(popped,
                        StateMachine_sent_tx_add_input(popped.state_machine, msg)),
                    OkSend(msg))
    ELSE IF self.outputs_to_contribute # <<>>
    THEN LET output == PopLast(self.outputs_to_contribute)
             popped == [self EXCEPT !.outputs_to_contribute = PopRest(@)]
             msg == TxAddOutputFor(output)
         IN OkAfter(do_state_transition(popped,
                        StateMachine_sent_tx_add_output(popped.state_machine, msg)),
                    OkSend(msg))
    ELSE OkAfter(do_state_transition(self,
                     StateMachine_sent_tx_complete(self.state_machine, TxComplete)),
                 OkSend(TxComplete))

ThenMaybeSendMessage_NoReply(t) ==
    [self |-> t.self, ret |-> IF t.ok THEN OkSend(TxComplete) ELSE ErrRet(t.reason)]

\* `do_state_transition!(self, received_.., msg)?; self.maybe_send_message()`:
\* the transition's error, else the reply
ThenMaybeSendMessage(t) ==
    IF ~t.ok THEN [self |-> t.self, ret |-> ErrRet(t.reason)]
    ELSE maybe_send_message(t.self)

handle_tx_add_input(self, msg) ==
    ThenMaybeSendMessage(do_state_transition(self,
        StateMachine_received_tx_add_input(self.state_machine, msg)))
handle_tx_remove_input(self, msg) ==
    ThenMaybeSendMessage(do_state_transition(self,
        StateMachine_received_tx_remove_input(self.state_machine, msg)))
handle_tx_add_output(self, msg) ==
    ThenMaybeSendMessage(do_state_transition(self,
        StateMachine_received_tx_add_output(self.state_machine, msg)))
handle_tx_remove_output(self, msg) ==
    ThenMaybeSendMessage(do_state_transition(self,
        StateMachine_received_tx_remove_output(self.state_machine, msg)))

ReplyToTxComplete_NeverTransaction(m) ==
    IF m.ret.kind = "Err" THEN m
    ELSE [self |-> m.self, ret |-> SendTxMessage(m.ret.msg)]

\* handle_tx_complete, the arm of ReceivedTxComplete: m is what
\* maybe_send_message returned
ReplyToTxComplete(m) ==
    IF m.ret.kind = "Err" THEN m
    ELSE IF m.self.state_machine.tag = "NegotiationComplete"
    THEN [self |-> m.self, ret |-> SendTxComplete(m.ret.msg, m.self.state_machine.tx)]
    ELSE IF m.self.state_machine.tag = "SentChangeMsg"
    THEN [self |-> m.self, ret |-> SendTxMessage(m.ret.msg)]
    ELSE [self |-> m.self, ret |-> ErrRet("InvalidStateTransition")]

\* handle_tx_complete, the match on the state the received transition led to
AfterReceivedTxComplete(t) ==
    IF ~t.ok THEN [self |-> t.self, ret |-> ErrRet(t.reason)]
    ELSE IF t.self.state_machine.tag = "ReceivedTxComplete"
    THEN ReplyToTxComplete(maybe_send_message(t.self))
    ELSE IF t.self.state_machine.tag = "NegotiationComplete"
    THEN [self |-> t.self, ret |-> RetNegotiationComplete(t.self.state_machine.tx)]
    ELSE [self |-> t.self, ret |-> ErrRet("InvalidStateTransition")]

handle_tx_complete_Idempotent(self, msg) ==
    IF self.state_machine.tag = "NegotiationComplete"
    THEN [self |-> self, ret |-> RetNegotiationComplete(self.state_machine.tx)]
    ELSE AfterReceivedTxComplete(do_state_transition(self,
             StateMachine_received_tx_complete(self.state_machine, msg)))

handle_tx_complete(self, msg) ==
    AfterReceivedTxComplete(do_state_transition(self,
        StateMachine_received_tx_complete(self.state_machine, msg)))

RECURSIVE Arrangements(_, _)
\* the orders in which the entries of q at the indices I can end up when they
\* are sorted by serial id
Arrangements(q, I) ==
    IF I = {} THEN {<<>>}
    ELSE LET least == {i \in I : \A j \in I : q[i].serial_id <= q[j].serial_id}
         IN UNION {{<<q[i]>> \o r : r \in Arrangements(q, I \ {i})} : i \in least}

\* sort_unstable_by_key(serial_id) leaves the order of entries with equal
\* serial ids open
SortedArrangements(q) == Arrangements(q, DOMAIN q)

FirstMessage_Silent(m) == [self |-> m.self, message_send |-> NoMsg]

\* new, the initiator's branch: the first message is sent at once (a failure
\* of that send is dropped, the constructor stays as the send left it)
FirstMessage(m) ==
    [self |-> m.self, message_send |-> IF m.ret.kind = "Ok" THEN m.ret.msg ELSE NoMsg]

\* InteractiveTxConstructor::new.  entropy is the sequence of values the entropy
\* source returns, in call order; inputs are [txin, prev_tx] pairs.  The result is
\* the set of (constructor, first message) pairs the call can return; it is empty
\* when new returns Err (an input's vout is not an output of its prev_tx).
InteractiveTxConstructor_new(entropy, feerate_sat_per_kw, is_initiator, funding_tx_locktime, inputs_to_contribute, outputs_to_contribute, shared_funding_input, new_funding_output, remote_contribution_satoshis, local_contribution_satoshis) ==
    LET state_machine ==
            StateMachine_new(feerate_sat_per_kw, is_initiator, funding_tx_locktime,
                             shared_funding_input, new_funding_output,
                             remote_contribution_satoshis, local_contribution_satoshis)
        nin == Len(inputs_to_contribute)
        with_shared == is_initiator /\ shared_funding_input.some
        nsh == IF with_shared THEN 1 ELSE 0
        local_inputs ==
            [i \in 1..nin |->
                LocalInput(generate_holder_serial_id(entropy[i], is_initiator),
                           inputs_to_contribute[i].txin,
                           inputs_to_contribute[i].prev_tx,
                           OutputAt(inputs_to_contribute[i].prev_tx,
                                    inputs_to_contribute[i].txin.previous_output.vout).value)]
        inputs ==
            IF with_shared
            THEN Append(local_inputs,
                        SharedInput(generate_holder_serial_id(entropy[nin + 1], is_initiator),
                                    shared_funding_input.txin,
                                    shared_funding_input.txout.value,
                                    shared_funding_input.to_remote_value_satoshis,
                                    shared_funding_input.to_local_value_satoshis))
            ELSE local_inputs
        outputs ==
            [i \in 1..Len(outputs_to_contribute) |->
                LocalOutput(generate_holder_serial_id(entropy[nin + nsh + i], is_initiator),
                            outputs_to_contribute[i])]
        in_range ==
            \A i \in 1..nin :
                HasOutput(inputs_to_contribute[i].prev_tx,
                          inputs_to_contribute[i].txin.previous_output.vout)
    IN IF ~in_range THEN {}
       ELSE {IF is_initiator
             THEN FirstMessage(maybe_send_message(Constructor(state_machine, si, so)))
             ELSE [self |-> Constructor(state_machine, si, so), message_send |-> NoMsg]
             : si \in SortedArrangements(inputs), so \in SortedArrangements(outputs)}

----------------------------------------------------------------------------
(* Sessions: what the two constructors are created with *)

FEERATE == FEERATE_FLOOR_SATS_PER_KW * 10
LOCKTIME == 1337

PendingInput(txin, prev_tx) == [txin |-> txin, prev_tx |-> prev_tx]

\* a 1,000,000 sat and a 100,000 sat witness prevout
InputChoices ==
    {PendingInput(TxIn(OutPoint("t1", 0), ENABLE_RBF_NO_LOCKTIME), PrevTx1),
     PendingInput(TxIn(OutPoint("t2", 0), ENABLE_RBF_NO_LOCKTIME), PrevTx2)}

\* the non-initiator may hold the prevout the initiator holds
InputChoicesB ==
    {PendingInput(TxIn(OutPoint("t2", 0), ENABLE_RBF_NO_LOCKTIME), PrevTx2)}

OutputChoices == {TxOut(100000, "p2wsh"), TxOut(120000, "funding")}
OutputChoicesB == {TxOut(100000, "p2wsh")}

TheSharedInput ==
    SharedFundingInput(TxIn(OutPoint(FundingTxid, 0), ENABLE_RBF_NO_LOCKTIME),
                       TxOut(100000, "empty"), 50000, 50000)

\* [sfi, a, b]: the shared funding input, and the initiator's and the
\* non-initiator's contribution to the funding output
Sessions ==
    {[sfi |-> NoSharedInput, a |-> 0, b |-> 0],
     [sfi |-> TheSharedInput, a |-> 0, b |-> 0],
     [sfi |-> TheSharedInput, a |-> 20000, b |-> 0]}

NewFundingOutput == TxOut(120000, "funding")

SeqsUpTo(S, n) == UNION {[1..k -> S] : k \in 0..n}

\* the calls of the entropy source made by one call of new
EntropyDraws(is_initiator, ins, outs, sfi) ==
    [1..(Len(ins) + (IF is_initiator /\ sfi.some THEN 1 ELSE 0) + Len(outs))
        -> 1..MaxEntropy]

----------------------------------------------------------------------------
(* Calls on a constructor *)

MsgOf_DropsFinalTxComplete(r) == IF r.kind \in {"Ok", "SendTxMessage"} THEN r.msg ELSE NoMsg
MsgOf(r) == IF r.kind \in {"Ok", "SendTxMessage", "SendTxComplete"} THEN r.msg ELSE NoMsg

\* Record of contributions, kept beside a constructor: the inputs and outputs
\* that were added by either side and not removed by the side that added them
NoContributions == [ins |-> EmptyBag, outs |-> EmptyBag]

ContributedInput(by, m) ==
    [serial_id |-> m.serial_id, by |-> by,
     txin |-> TxIn(OutPoint(IF m.shared_input_txid # "none" THEN m.shared_input_txid
                            ELSE txid(m.prevtx), m.prevtx_out), m.sequence)]
ContributedOutput(by, m) ==
    [serial_id |-> m.serial_id, by |-> by, txout |-> TxOut(m.sats, m.script)]

BagWithout(b, s, by) ==
    [e \in {x \in DOMAIN b : ~(x.serial_id = s /\ x.by = by)} |-> b[e]]

Contribute(h, by, m) ==
    CASE m.type = "tx_add_input" ->
            [h EXCEPT !.ins = @ (+) SetToBag({ContributedInput(by, m)})]
      [] m.type = "tx_add_output" ->
            [h EXCEPT !.outs = @ (+) SetToBag({ContributedOutput(by, m)})]
      [] m.type = "tx_remove_input" -> [h EXCEPT !.ins = BagWithout(@, m.serial_id, by)]
      [] m.type = "tx_remove_output" -> [h EXCEPT !.outs = BagWithout(@, m.serial_id, by)]
      [] OTHER -> h

\* party p is handed msg and its entry point returns r
Handle(p, msg, r) ==
    /\ cons' = [cons EXCEPT ![p] = r.self]
    /\ ret' = [ret EXCEPT ![p] = r.ret]
    /\ hist' = [hist EXCEPT ![p] =
                  IF r.ret.kind = "Err" THEN NoContributions
                  ELSE Contribute(Contribute(@, "peer", msg), "holder", MsgOf(r.ret))]
    /\ chan' = [chan EXCEPT ![p] = NoMsg, ![Other(p)] = MsgOf(r.ret)]
    /\ before' = [before EXCEPT ![p] = cons[p].state_machine.tag]

NoSM == [n |-> 0, ev |-> <<>>, pre |-> Indeterminate, msg |-> NoMsg]
NoGen == [made |-> FALSE]

----------------------------------------------------------------------------
(* Spec: an initiator A and a non-initiator B that speak only to each other *)

Init ==
    \E c \in Sessions :
    \E insA \in SeqsUpTo(InputChoices, MaxContributions) :
    \E outsA \in SeqsUpTo(OutputChoices, MaxContributions - Len(insA)) :
    \E eA \in EntropyDraws(TRUE, insA, outsA, c.sfi) :
    \E a \in InteractiveTxConstructor_new(eA, FEERATE, TRUE, LOCKTIME, insA, outsA,
                                          c.sfi, NewFundingOutput, c.b, c.a) :
    \E insB \in SeqsUpTo(InputChoicesB, MaxContributions - Len(insA) - Len(outsA)) :
    \E outsB \in SeqsUpTo(OutputChoicesB,
                          MaxContributions - Len(insA) - Len(outsA) - Len(insB)) :
    \E eB \in EntropyDraws(FALSE, insB, outsB, c.sfi) :
    \E b \in InteractiveTxConstructor_new(eB, FEERATE, FALSE, LOCKTIME, insB, outsB,
                                          c.sfi, NewFundingOutput, c.a, c.b) :
        /\ cons = [p \in Parties |-> IF p = "A" THEN a.self ELSE b.self]
        /\ chan = [p \in Parties |-> IF p = "B" THEN a.message_send ELSE b.message_send]
        /\ ret = [p \in Parties |-> NoRet]
        /\ calls = 0
        /\ before = [p \in Parties |-> "none"]
        /\ hist = [p \in Parties |->
                     Contribute(NoContributions, "holder",
                                IF p = "A" THEN a.message_send ELSE b.message_send)]
        /\ sm = Indeterminate
        /\ smlog = NoSM
        /\ gen = NoGen

DeliverTxAddInput(p) ==
    /\ cons[p].made
    /\ chan[p].type = "tx_add_input"
    /\ Handle(p, chan[p], handle_tx_add_input(cons[p], chan[p]))
    /\ UNCHANGED <<calls, sm, smlog, gen>>

DeliverTxAddOutput(p) ==
    /\ cons[p].made
    /\ chan[p].type = "tx_add_output"
    /\ Handle(p, chan[p], handle_tx_add_output(cons[p], chan[p]))
    /\ UNCHANGED <<calls, sm, smlog, gen>>

DeliverTxRemoveInput(p) ==
    /\ cons[p].made
    /\ chan[p].type = "tx_remove_input"
    /\ Handle(p, chan[p], handle_tx_remove_input(cons[p], chan[p]))
    /\ UNCHANGED <<calls, sm, smlog, gen>>

DeliverTxRemoveOutput(p) ==
    /\ cons[p].made
    /\ chan[p].type = "tx_remove_output"
    /\ Handle(p, chan[p], handle_tx_remove_output(cons[p], chan[p]))
    /\ UNCHANGED <<calls, sm, smlog, gen>>

DeliverTxComplete(p) ==
    /\ cons[p].made
    /\ chan[p].type = "tx_complete"
    /\ Handle(p, chan[p], handle_tx_complete(cons[p], chan[p]))
    /\ UNCHANGED <<calls, sm, smlog, gen>>

\* the constructors themselves never emit a remove, so a two-party run has
\* three kinds of delivery
Next ==
    \E p \in Parties :
        \/ DeliverTxAddInput(p)
        \/ DeliverTxAddOutput(p)
        \/ DeliverTxComplete(p)

Spec == Init /\ [][Next]_vars

\* every message in flight is eventually handed to its addressee
FairSpec == Spec /\ WF_vars(Next)

----------------------------------------------------------------------------
(* SpecPeer: one constructor, its peer sends whatever it likes *)

PeerMsgs ==
    {TxAddInput(i, PrevTx1, 0, ENABLE_RBF_NO_LOCKTIME, "none") : i \in 0..1}
    \cup {TxAddInput(i, PrevTx2, 0, ENABLE_RBF_NO_LOCKTIME, "none") : i \in 2..3}
    \cup {TxAddInput(i, DummyPrevTx, 0, ENABLE_RBF_NO_LOCKTIME, FundingTxid) : i \in 0..1}
    \cup {TxAddInput(2, DummyPrevTx, 1, ENABLE_RBF_NO_LOCKTIME, FundingTxid)}
    \cup {TxAddOutput(i, 100000, "p2wsh") : i \in 0..1}
    \cup {TxRemoveInput(i) : i \in 0..1}
    \cup {TxRemoveOutput(i) : i \in 0..1}
    \cup {TxComplete}

\* what a lone holder may be created with: also an input that is final
HolderInputChoices ==
    InputChoices \cup {PendingInput(TxIn(OutPoint("t1", 0), SEQUENCE_MAX), PrevTx1)}

\* what new can return for a lone holder in role p
LoneConstructors(p, c) ==
    UNION {InteractiveTxConstructor_new(e, FEERATE, IsInitiator(p), LOCKTIME, ins, outs,
                                        c.sfi, NewFundingOutput,
                                        IF p = "A" THEN c.b ELSE c.a,
                                        IF p = "A" THEN c.a ELSE c.b) :
             <<ins, outs, e>> \in
                {<<i, o, d>> \in SeqsUpTo(HolderInputChoices, MaxHolderInputs)
                                   \X SeqsUpTo(OutputChoicesB, MaxHolderOutputs)
                                   \X SeqsUpTo(1..MaxEntropy,
                                               MaxHolderInputs + 1 + MaxHolderOutputs) :
                    d \in EntropyDraws(IsInitiator(p), i, o, c.sfi)}}

InitPeer ==
    \E c \in Sessions, p \in Parties :
    \E k \in LoneConstructors(p, c) :
        /\ cons = [q \in Parties |-> IF q = p THEN k.self ELSE NotMade]
        /\ chan = [q \in Parties |-> IF q = p THEN NoMsg ELSE k.message_send]
        /\ ret = [q \in Parties |-> NoRet]
        /\ calls = 0
        /\ before = [q \in Parties |-> "none"]
        /\ hist = [q \in Parties |->
                     IF q = p THEN Contribute(NoContributions, "holder", k.message_send)
                     ELSE NoContributions]
        /\ sm = Indeterminate
        /\ smlog = NoSM
        /\ gen = NoGen

\* the peer of p puts a message on the wire
PeerSends(p, m) ==
    /\ cons[p].made
    /\ chan[p].type = "none"
    /\ calls < MaxPeerMsgs
    /\ chan' = [chan EXCEPT ![p] = m]
    /\ calls' = calls + 1
    /\ UNCHANGED <<cons, ret, hist, before, sm, smlog, gen>>

NextPeer ==
    \E p \in Parties :
        \/ \E m \in PeerMsgs : PeerSends(p, m)
        \/ DeliverTxAddInput(p)
        \/ DeliverTxAddOutput(p)
        \/ DeliverTxRemoveInput(p)
        \/ DeliverTxRemoveOutput(p)
        \/ DeliverTxComplete(p)

SpecPeer == InitPeer /\ [][NextPeer]_vars

----------------------------------------------------------------------------
(* SpecSM: a bare StateMachine, one transition at a time *)

SmMsgs ==
    {TxAddInput(i, PrevTx1, 0, ENABLE_RBF_NO_LOCKTIME, "none") : i \in 0..1}
    \cup {TxAddInput(i, PrevTx2, 0, q, "none") : i \in 0..1, q \in {SEQ_FFFFFFFE, SEQUENCE_MAX}}
    \cup {TxAddInput(0, DummyPrevTx, 0, ENABLE_RBF_NO_LOCKTIME, FundingTxid)}
    \cup {TxAddInput(0, PrevTx1, v, ENABLE_RBF_NO_LOCKTIME, "none") : v \in 1..2}
    \cup {TxAddInput(i, PrevTx2, 0, ENABLE_RBF_NO_LOCKTIME, "t1") : i \in 0..1}
    \cup {TxAddOutput(i, 100000, "p2wsh") : i \in 0..1}
    \cup {TxAddOutput(i, 100000, "funding") : i \in 0..1}
    \cup {TxRemoveInput(i) : i \in 0..1}
    \cup {TxRemoveOutput(i) : i \in 0..1}
    \cup {TxComplete}

InitSM ==
    \E c \in Sessions, is_initiator \in BOOLEAN :
        /\ sm = StateMachine_new(FEERATE, is_initiator, LOCKTIME, c.sfi, NewFundingOutput,
                                 c.b, c.a)
        /\ smlog = NoSM
        /\ cons = [q \in Parties |-> NotMade]
        /\ chan = [q \in Parties |-> NoMsg]
        /\ ret = [q \in Parties |-> NoRet]
        /\ calls = 0
        /\ before = [q \in Parties |-> "none"]
        /\ hist = [q \in Parties |-> NoContributions]
        /\ gen = NoGen

LastTwo(q) == IF Len(q) > 2 THEN SubSeq(q, Len(q) - 1, Len(q)) ELSE q

\* apply one transition and log it
SmStep(op, msg, new_sm) ==
    /\ sm.tag # "Indeterminate"
    /\ smlog.n < MaxSmSteps
    /\ sm' = new_sm
    /\ smlog' = [n |-> smlog.n + 1, ev |-> LastTwo(Append(smlog.ev, op)), pre |-> sm,
                 msg |-> msg]
    /\ UNCHANGED <<cons, chan, ret, calls, hist, before, gen>>

SmSentTxAddInput ==
    \E m \in SmMsgs : m.type = "tx_add_input"
        /\ SmStep("sent_tx_add_input", m, StateMachine_sent_tx_add_input(sm, m))
SmReceivedTxAddInput ==
    \E m \in SmMsgs : m.type = "tx_add_input"
        /\ SmStep("received_tx_add_input", m, StateMachine_received_tx_add_input(sm, m))
SmSentTxAddOutput ==
    \E m \in SmMsgs : m.type = "tx_add_output"
        /\ SmStep("sent_tx_add_output", m, StateMachine_sent_tx_add_output(sm, m))
SmReceivedTxAddOutput ==
    \E m \in SmMsgs : m.type = "tx_add_output"
        /\ SmStep("received_tx_add_output", m, StateMachine_received_tx_add_output(sm, m))
SmSentTxRemoveInput ==
    \E m \in SmMsgs : m.type = "tx_remove_input"
        /\ SmStep("sent_tx_remove_input", m, StateMachine_sent_tx_remove_input(sm, m))
SmReceivedTxRemoveInput ==
    \E m \in SmMsgs : m.type = "tx_remove_input"
        /\ SmStep("received_tx_remove_input", m, StateMachine_received_tx_remove_input(sm, m))
SmSentTxRemoveOutput ==
    \E m \in SmMsgs : m.type = "tx_remove_output"
        /\ SmStep("sent_tx_remove_output", m, StateMachine_sent_tx_remove_output(sm, m))
SmReceivedTxRemoveOutput ==
    \E m \in SmMsgs : m.type = "tx_remove_output"
        /\ SmStep("received_tx_remove_output", m, StateMachine_received_tx_remove_output(sm, m))
SmSentTxComplete ==
    SmStep("sent_tx_complete", TxComplete, StateMachine_sent_tx_complete(sm, TxComplete))
SmReceivedTxComplete ==
    SmStep("received_tx_complete", TxComplete, StateMachine_received_tx_complete(sm, TxComplete))

NextSM ==
    \/ SmSentTxAddInput
    \/ SmReceivedTxAddInput
    \/ SmSentTxAddOutput
    \/ SmReceivedTxAddOutput
    \/ SmSentTxRemoveInput
    \/ SmReceivedTxRemoveInput
    \/ SmSentTxRemoveOutput
    \/ SmReceivedTxRemoveOutput
    \/ SmSentTxComplete
    \/ SmReceivedTxComplete

SpecSM == InitSM /\ [][NextSM]_vars

----------------------------------------------------------------------------
(* SpecCount: a bare StateMachine late in a long negotiation *)

\* the received counters of a machine whose peer has added and removed inputs
\* and outputs many times over: one short of the limit, or at it
InputCounts == {MAX_RECEIVED_TX_ADD_INPUT_COUNT - 1, MAX_RECEIVED_TX_ADD_INPUT_COUNT}
OutputCounts == {MAX_RECEIVED_TX_ADD_OUTPUT_COUNT - 1, MAX_RECEIVED_TX_ADD_OUTPUT_COUNT}

\* the outpoint the peer added and removed again each time, as a shared
\* input: remove leaves it in the set
RemovedOutpoint == OutPoint(FundingTxid, 0)

\* the machine s after the peer's many adds and removes: its tables are
\* empty again, its counters are not
AfterReceived(s, inputs, outputs) ==
    [s EXCEPT !.ctx.received_tx_add_input_count = inputs,
              !.ctx.received_tx_add_output_count = outputs,
              !.ctx.prevtx_outpoints = {RemovedOutpoint}]

InitCount ==
    \E is_initiator \in BOOLEAN, inputs \in InputCounts, outputs \in OutputCounts :
        /\ sm = AfterReceived(StateMachine_new(FEERATE, is_initiator, LOCKTIME,
                                                TheSharedInput, NewFundingOutput, 0, 0),
                              inputs, outputs)
        /\ smlog = NoSM
        /\ cons = [q \in Parties |-> NotMade]
        /\ chan = [q \in Parties |-> NoMsg]
        /\ ret = [q \in Parties |-> NoRet]
        /\ calls = 0
        /\ before = [q \in Parties |-> "none"]
        /\ hist = [q \in Parties |-> NoContributions]
        /\ gen = NoGen

SpecCount == InitCount /\ [][NextSM]_vars

----------------------------------------------------------------------------
(* SpecGen: serial ids generated from what the entropy source returns *)

\* byte values at both ends of the range
ByteChoices == {0, 1, 254, 255}

InitGen ==
    /\ gen = NoGen
    /\ cons = [q \in Parties |-> NotMade]
    /\ chan = [q \in Parties |-> NoMsg]
    /\ ret = [q \in Parties |-> NoRet]
    /\ calls = 0
    /\ before = [q \in Parties |-> "none"]
    /\ hist = [q \in Parties |-> NoContributions]
    /\ sm = Indeterminate
    /\ smlog = NoSM

\* one call of generate_holder_serial_id
Generate(rand_bytes, is_initiator) ==
    /\ gen' = [made |-> TRUE, rand_bytes |-> rand_bytes, is_initiator |-> is_initiator,
               serial_id |-> SerialIdFromEntropy(rand_bytes, is_initiator)]
    /\ UNCHANGED <<cons, chan, ret, calls, hist, before, sm, smlog>>

NextGen ==
    \E rand_bytes \in [1..ENTROPY_BYTES -> ByteChoices], is_initiator \in BOOLEAN :
        Generate(rand_bytes, is_initiator)

SpecGen == InitGen /\ [][NextGen]_vars

----------------------------------------------------------------------------
(* SpecBuild: tx_complete at the end of negotiations of every size *)

\* the transaction whose only output the filler entry under serial id s spends
FillTxid(s) == "f" \o ToString(s)
FillPrevTx(s, value) == [txid |-> FillTxid(s), output |-> <<TxOut(value, "p2wsh")>>]
FillTxIn(s) == TxIn(OutPoint(FillTxid(s), 0), ENABLE_RBF_NO_LOCKTIME)

\* the lowest serial id of a role, and n more of them
FirstSerialId(for_initiator) == IF for_initiator THEN 0 ELSE 1
SerialIds(for_initiator, n) == {2 * k + FirstSerialId(for_initiator) : k \in 1..n}

Contributors == {"none", "holder", "peer"}
HolderInputCounts == {0, MAX_INPUTS_OUTPUTS_COUNT}
HolderOutputCounts == {0, MAX_INPUTS_OUTPUTS_COUNT}
PeerInputCounts == {0, 1, 2}
PeerOutputCounts == {0, 1}

PeerOutputValue == 100000
FillValue == PeerOutputValue \div 10

\* the context of a holder in the session with a shared input, before anything
\* was added: the initiator contributes 20000 sat to the funding output
SplicedContext(is_initiator) ==
    NegotiationContext(FEERATE, is_initiator, LOCKTIME, TheSharedInput, NewFundingOutput,
                       IF is_initiator THEN 0 ELSE 20000,
                       IF is_initiator THEN 20000 ELSE 0)

\* the serial id of the shared entry, none when nobody added it
SharedIds(is_initiator, shared) ==
    IF shared = "none" THEN {}
    ELSE {FirstSerialId(IF shared = "holder" THEN is_initiator ELSE ~is_initiator)}

\* the input table after the holder added hi inputs and the peer ci inputs,
\* the first of them worth first_value, and one of them the shared input
FillInputs(ctx, hi, ci, first_value, shared) ==
    [s \in SerialIds(ctx.holder_is_initiator, hi)
              \cup SerialIds(~ctx.holder_is_initiator, ci)
              \cup SharedIds(ctx.holder_is_initiator, shared) |->
        IF s < 2
        THEN SharedInputFromContext(ctx, s, ctx.shared_funding_input.txin)
        ELSE IF is_serial_id_valid_for_counterparty(ctx, s)
        THEN RemoteInput(s, FillTxIn(s),
                         FillPrevTx(s, IF s < 4 THEN first_value ELSE FillValue),
                         IF s < 4 THEN first_value ELSE FillValue)
        ELSE LocalInput(s, FillTxIn(s), FillPrevTx(s, FillValue), FillValue)]

\* the output table after the holder added ho outputs and the peer co outputs,
\* and one of them the funding output
FillOutputs(ctx, ho, co, shared) ==
    [s \in SerialIds(ctx.holder_is_initiator, ho)
              \cup SerialIds(~ctx.holder_is_initiator, co)
              \cup SharedIds(ctx.holder_is_initiator, shared) |->
        IF s < 2
        THEN SharedOutput(s, ctx.new_funding_output,
                          funding_output_remote_value_satoshis(ctx),
                          funding_output_local_value_satoshis(ctx))
        ELSE IF is_serial_id_valid_for_counterparty(ctx, s)
        THEN RemoteOutput(s, TxOut(PeerOutputValue, "p2wsh"))
        ELSE LocalOutput(s, TxOut(FillValue \div 10, "p2wsh"))]

\* the context with these tables, the set of spent outpoints and the counters
\* that go with them
WithTables(ctx, inputs, outputs) ==
    [ctx EXCEPT
        !.inputs = inputs,
        !.outputs = outputs,
        !.prevtx_outpoints = {inputs[s].txin.previous_output : s \in DOMAIN inputs},
        !.received_tx_add_input_count =
            Cardinality({s \in DOMAIN inputs : is_serial_id_valid_for_counterparty(ctx, s)}),
        !.received_tx_add_output_count =
            Cardinality({s \in DOMAIN outputs : is_serial_id_valid_for_counterparty(ctx, s)})]

\* what the peer's outputs are worth to it, and the fee for weight
PeerOut(ctx, co, shared) ==
    co * PeerOutputValue
    + (IF shared = "peer" THEN funding_output_remote_value_satoshis(ctx) ELSE 0)
FeeOf(weight) == fee_for_weight(FEERATE, weight)

\* values of the peer's first input on both sides of the value check and of
\* the fee check, with and without the fee of the common fields; base is
\* what its other inputs bring, out what its outputs take, weight what it added
FirstValues(base, out, weight) ==
    {v \in {out - base + d : d \in {-1, 0, FeeOf(weight) - 1, FeeOf(weight),
                                     FeeOf(weight) + FeeOf(tx_common_fields_weight) - 1,
                                     FeeOf(weight) + FeeOf(tx_common_fields_weight)}} :
        v > 0}

\* what the peer's inputs other than the first bring
PeerBase(ctx, ci, shared) ==
    (IF ci > 1 THEN (ci - 1) * FillValue ELSE 0)
    + (IF shared = "peer" THEN ctx.shared_funding_input.to_remote_value_satoshis ELSE 0)

\* the weight of what the peer added: n_in inputs and n_out P2WSH outputs
PeerWeight(n_in, n_out) ==
    n_in * INPUT_WEIGHT + n_out * (8 + consensus_encode_len("p2wsh")) * WITNESS_SCALE_FACTOR

InitBuild ==
    \E is_initiator \in BOOLEAN, tag \in {"SentTxComplete", "ReceivedTxComplete"} :
    \E hi \in HolderInputCounts, ho \in HolderOutputCounts :
    \E ci \in PeerInputCounts, co \in PeerOutputCounts :
    \E shared_in \in Contributors, shared_out \in Contributors :
    \E first_value \in
          IF ci = 0 THEN {FillValue}
          ELSE FirstValues(PeerBase(SplicedContext(is_initiator), ci, shared_in),
                           PeerOut(SplicedContext(is_initiator), co, shared_out),
                           PeerWeight(ci + (IF shared_in = "peer" THEN 1 ELSE 0),
                                      co + (IF shared_out = "peer" THEN 1 ELSE 0))) :
        /\ sm = [tag |-> tag,
                 ctx |-> WithTables(SplicedContext(is_initiator),
                                    FillInputs(SplicedContext(is_initiator), hi, ci,
                                               first_value, shared_in),
                                    FillOutputs(SplicedContext(is_initiator), ho, co,
                                                shared_out))]
        /\ smlog = NoSM
        /\ cons = [q \in Parties |-> NotMade]
        /\ chan = [q \in Parties |-> NoMsg]
        /\ ret = [q \in Parties |-> NoRet]
        /\ calls = 0
        /\ before = [q \in Parties |-> "none"]
        /\ hist = [q \in Parties |-> NoContributions]
        /\ gen = NoGen

NextBuild ==
    \/ SmSentTxComplete
    \/ SmReceivedTxComplete

SpecBuild == InitBuild /\ [][NextBuild]_vars

----------------------------------------------------------------------------
(* Properties of two-party runs (Spec) *)

Tag(p) == cons[p].state_machine.tag

\* no message is in flight: neither constructor will be called again
RunEnded == \A p \in Parties : chan[p].type = "none"

BothComplete == \A p \in Parties : Tag(p) = "NegotiationComplete"

\* C1 as stated: a two-party run ends with both constructors in
\* NegotiationComplete or both in NegotiationAborted, never one complete while
\* the other is aborted.
C1_BothCompleteOrBothAborted ==
    RunEnded =>
        \/ BothComplete
        \/ \A p \in Parties : Tag(p) = "NegotiationAborted"

\* C1 as the code has it: a two-party run ends with both constructors in
\* NegotiationComplete, or with exactly one of them in NegotiationAborted; the
\* aborting constructor sends nothing, so its peer is left in the state of its
\* last send (SentChangeMsg, SentTxComplete or NegotiationComplete) and is
\* never told.
C1_BothCompleteOrOneAborted ==
    RunEnded =>
        \/ BothComplete
        \/ \E p \in Parties :
              /\ Tag(p) = "NegotiationAborted"
              /\ ret[p].kind = "Err"
              /\ Tag(Other(p)) \in {"SentChangeMsg", "SentTxComplete", "NegotiationComplete"}

\* a run that ended with one constructor complete and the other aborted
C1_OneCompleteOtherAborted ==
    /\ RunEnded
    /\ \E p \in Parties :
          /\ Tag(p) = "NegotiationComplete"
          /\ Tag(Other(p)) = "NegotiationAborted"

\* C2: when both constructors of a two-party run reach NegotiationComplete they
\* hold the same transaction (version, locktime, inputs and outputs in the same
\* order), and the transaction each call returned is the one its machine holds.
C2_SameTransaction ==
    BothComplete =>
        /\ cons["A"].state_machine.tx = cons["B"].state_machine.tx
        /\ \A p \in Parties :
              ret[p].kind \in {"SendTxComplete", "NegotiationComplete"}
              /\ ret[p].tx = cons[p].state_machine.tx

\* both complete over a transaction that spends the shared input and another
\* input and has an output
C2_BothCompleteWithContributions ==
    /\ BothComplete
    /\ Len(cons["A"].state_machine.tx.input) >= 2
    /\ \E i \in DOMAIN cons["A"].state_machine.tx.input :
          cons["A"].state_machine.tx.input[i].previous_output.txid = FundingTxid
    /\ Len(cons["A"].state_machine.tx.output) >= 1

----------------------------------------------------------------------------
(* Properties of one constructor against any peer (SpecPeer) *)

\* this step hands party p the message that is in flight towards it
Delivered(p) == cons[p].made /\ chan[p].type # "none" /\ chan'[p].type = "none"

\* seq lists field f of the entries of bag b, each entry as often as it is in
\* the bag, in an order that is ascending in serial id
ListsInSerialOrder(seq, b, f) ==
    /\ Len(seq) = BagCardinality(b)
    /\ \E r \in [1..Len(seq) -> BagToSet(b)] :
          /\ \A e \in BagToSet(b) : Cardinality({i \in 1..Len(seq) : r[i] = e}) = b[e]
          /\ \A i \in 1..Len(seq) : seq[i] = r[i][f]
          /\ \A i \in 1..Len(seq) - 1 : r[i].serial_id <= r[i + 1].serial_id

\* C3: for every message sequence accepted without abort, the transaction
\* that build produces has exactly one input per input contributed by either
\* party and not removed and exactly one output per such output, each list in
\* ascending order of serial id.
C3_BuildIsUnionSorted ==
    \A p \in Parties :
        cons[p].made /\ Tag(p) = "NegotiationComplete" =>
            /\ ListsInSerialOrder(cons[p].state_machine.tx.input, hist[p].ins, "txin")
            /\ ListsInSerialOrder(cons[p].state_machine.tx.output, hist[p].outs, "txout")

Unexpected == "UnexpectedCounterpartyMessage"

\* this call of party p ended in NegotiationAborted(reason), returned
\* Err(reason) and put no message on the wire
AbortedWith(p, reason) ==
    /\ cons'[p].state_machine = NegotiationAborted(reason)
    /\ ret'[p] = ErrRet(reason)
    /\ chan'[Other(p)] = NoMsg

\* C6 as stated: once a constructor is in NegotiationComplete, no later
\* handle_* call changes its state or the transaction it carries.
C6_CompleteNeverChanges ==
    [][\A p \in Parties :
          cons[p].made /\ Tag(p) = "NegotiationComplete" =>
              cons'[p].state_machine = cons[p].state_machine]_vars

\* C6 as the code has it: once a constructor is in NegotiationComplete it
\* never reaches another negotiating state nor completes on another
\* transaction, but every later handle_* call is refused with
\* UnexpectedCounterpartyMessage and moves the machine to NegotiationAborted,
\* which no longer carries the transaction.
C6_CompleteThenOnlyAborted ==
    [][\A p \in Parties :
          cons[p].made /\ Tag(p) = "NegotiationComplete" =>
              IF Delivered(p) THEN AbortedWith(p, Unexpected)
              ELSE cons'[p].state_machine = cons[p].state_machine]_vars

\* a constructor that was complete when its last call began and is aborted now
C6_CalledWhenComplete ==
    \E p \in Parties :
        /\ cons[p].made
        /\ before[p] = "NegotiationComplete"
        /\ cons[p].state_machine = NegotiationAborted(Unexpected)
        /\ ret[p] = ErrRet(Unexpected)

\* the result of the context mutator a received message stands for
ReceivedMutator(ctx, m) ==
    CASE m.type = "tx_add_input" -> received_tx_add_input(ctx, m)
      [] m.type = "tx_add_output" -> received_tx_add_output(ctx, m)
      [] m.type = "tx_remove_input" -> received_tx_remove_input(ctx, m)
      [] m.type = "tx_remove_output" -> received_tx_remove_output(ctx, m)
      [] m.type = "tx_complete" ->
            [ok |-> build_transaction(ctx).ok, reason |-> build_transaction(ctx).reason]

\* the mutator run when message m is received in state s: a received_* check
\* in either sent state, build when tx_complete answers the holder's own
RunsReceivedMutator(s, m) ==
    IF m.type = "tx_complete" THEN s.tag = "SentTxComplete" ELSE s.tag \in SentMsgStates

\* the result of the context mutator the reply in state s stands for: a sent_*
\* check for the next pending input or output, build for tx_complete
SentMutator(self, s) ==
    IF self.inputs_to_contribute # <<>>
    THEN sent_tx_add_input(s.ctx, TxAddInputFor(PopLast(self.inputs_to_contribute)))
    ELSE IF self.outputs_to_contribute # <<>>
    THEN sent_tx_add_output(s.ctx, TxAddOutputFor(PopLast(self.outputs_to_contribute)))
    ELSE IF s.tag = "ReceivedTxComplete"
    THEN [ok |-> build_transaction(s.ctx).ok, reason |-> build_transaction(s.ctx).reason]
    ELSE [ok |-> TRUE, reason |-> "None"]

\* C7: when a context mutator (a received_* or sent_* check, or build) returns
\* an AbortReason, the state machine moves to NegotiationAborted with exactly
\* that reason, the entry point returns that reason, and the call produces no
\* outgoing message.
C7_MutatorErrorPropagates ==
    [][\A p \in Parties :
          Delivered(p) =>
              LET s == cons[p].state_machine
                  m == chan[p]
                  received == StateMachine_received(s, m)
              IN /\ (RunsReceivedMutator(s, m) /\ ~ReceivedMutator(s.ctx, m).ok) =>
                        AbortedWith(p, ReceivedMutator(s.ctx, m).reason)
                 /\ (received.tag \in ReceivedMsgStates
                       /\ ~SentMutator(cons[p], received).ok) =>
                        AbortedWith(p, SentMutator(cons[p], received).reason)]_vars

\* a call that received tx_complete, went on to answer with tx_complete and
\* aborted because build refused the transaction
C7_MutatorFailed ==
    \E p \in Parties :
        /\ cons[p].made
        /\ before[p] = "SentChangeMsg"
        /\ cons[p].state_machine = NegotiationAborted("InsufficientFees")
        /\ ret[p] = ErrRet("InsufficientFees")
        /\ chan[Other(p)] = NoMsg

\* C8: after a constructor has aborted, every later handle_* call returns an
\* error (UnexpectedCounterpartyMessage or the original abort reason), returns
\* neither a message nor a transaction, and leaves the machine in
\* NegotiationAborted.
C8_AbortedIsAbsorbing ==
    [][\A p \in Parties :
          cons[p].made /\ Tag(p) = "NegotiationAborted" =>
              /\ cons'[p].state_machine.tag = "NegotiationAborted"
              /\ Delivered(p) =>
                    /\ ret'[p].kind = "Err"
                    /\ ret'[p].reason \in {Unexpected, cons[p].state_machine.reason}
                    /\ chan'[Other(p)] = NoMsg]_vars

\* a constructor that was aborted when its last call began
C8_CalledWhenAborted ==
    \E p \in Parties :
        /\ cons[p].made
        /\ before[p] = "NegotiationAborted"
        /\ Tag(p) = "NegotiationAborted"
        /\ ret[p].kind = "Err"

----------------------------------------------------------------------------
(* Properties of the bare state machine (SpecSM) *)

PeerChanges ==
    {"received_tx_add_input", "received_tx_add_output",
     "received_tx_remove_input", "received_tx_remove_output"}
HolderChanges ==
    {"sent_tx_add_input", "sent_tx_add_output",
     "sent_tx_remove_input", "sent_tx_remove_output"}

LastOp == smlog.ev[Len(smlog.ev)]

\* the kind of event the last transition stands for
LastEvent ==
    CASE LastOp \in PeerChanges -> "peer add/remove"
      [] LastOp = "received_tx_complete" -> "peer tx_complete"
      [] LastOp \in HolderChanges -> "holder add/remove"
      [] LastOp = "sent_tx_complete" -> "holder tx_complete"

\* the table of the claim: <<state, event, next state>>
TransitionTable ==
    {<<"SentChangeMsg", "peer add/remove", "ReceivedChangeMsg">>,
     <<"SentTxComplete", "peer add/remove", "ReceivedChangeMsg">>,
     <<"SentChangeMsg", "peer tx_complete", "ReceivedTxComplete">>,
     <<"SentTxComplete", "peer tx_complete", "NegotiationComplete">>,
     <<"ReceivedChangeMsg", "holder add/remove", "SentChangeMsg">>,
     <<"ReceivedTxComplete", "holder add/remove", "SentChangeMsg">>,
     <<"ReceivedChangeMsg", "holder tx_complete", "SentTxComplete">>,
     <<"ReceivedTxComplete", "holder tx_complete", "NegotiationComplete">>}

HasEntry(state, event) == \E t \in TransitionTable : t[1] = state /\ t[2] = event

\* the context mutator the last transition ran accepted the message (build,
\* when the transition leads to NegotiationComplete)
LastMutatorOk ==
    LET ctx == smlog.pre.ctx
        m == smlog.msg
    IN CASE LastOp \in PeerChanges -> ReceivedMutator(ctx, m).ok
         [] LastOp = "sent_tx_add_input" -> sent_tx_add_input(ctx, m).ok
         [] LastOp = "sent_tx_add_output" -> sent_tx_add_output(ctx, m).ok
         [] LastOp = "sent_tx_remove_input" -> sent_tx_remove_input(ctx, m).ok
         [] LastOp = "sent_tx_remove_output" -> sent_tx_remove_output(ctx, m).ok
         [] OTHER -> <<smlog.pre.tag, LastEvent, "NegotiationComplete">> \in TransitionTable
                        => build_transaction(ctx).ok

\* C4: the successful transitions are exactly those of the table: a valid
\* event in a state that has an entry for it leads to the entry's next state,
\* and no other (state, event) pair leads to a state other than
\* NegotiationAborted.
C4_ExactlyTheTable ==
    smlog.n > 0 =>
        /\ sm.tag # "NegotiationAborted" =>
              <<smlog.pre.tag, LastEvent, sm.tag>> \in TransitionTable
        /\ (HasEntry(smlog.pre.tag, LastEvent) /\ LastMutatorOk) =>
              <<smlog.pre.tag, LastEvent, sm.tag>> \in TransitionTable

\* a peer add/remove accepted after the holder's tx_complete
C4_ChangeAfterTxComplete ==
    /\ smlog.n > 0
    /\ smlog.pre.tag = "SentTxComplete"
    /\ LastEvent = "peer add/remove"
    /\ sm.tag = "ReceivedChangeMsg"

\* C5: a transition attempted from a state that has no table entry for it (a
\* received message in a received state, a sent message in a sent state, any
\* message in NegotiationComplete or NegotiationAborted) puts the machine in
\* NegotiationAborted with UnexpectedCounterpartyMessage or
\* InvalidStateTransition.
C5_NoEntryAborts ==
    (smlog.n > 0 /\ ~HasEntry(smlog.pre.tag, LastEvent)) =>
        sm \in {NegotiationAborted(Unexpected),
                NegotiationAborted("InvalidStateTransition")}

\* a message sent to a machine that had completed
C5_EventAfterComplete ==
    /\ smlog.n > 0
    /\ smlog.pre.tag = "NegotiationComplete"
    /\ LastEvent = "holder add/remove"
    /\ sm.tag = "NegotiationAborted"

\* C9: a machine is in NegotiationComplete only if its last two events were a
\* tx_complete it sent and a tx_complete it received, in either order, and
\* build succeeded on the context they left untouched; a peer add/remove
\* accepted after the holder's tx_complete returns the machine to
\* ReceivedChangeMsg.
C9_CompleteOnlyAfterBothTxComplete ==
    /\ sm.tag = "NegotiationComplete" =>
          /\ smlog.ev \in {<<"sent_tx_complete", "received_tx_complete">>,
                           <<"received_tx_complete", "sent_tx_complete">>}
          /\ smlog.pre.tag \in {"SentTxComplete", "ReceivedTxComplete"}
          /\ build_transaction(smlog.pre.ctx).ok
          /\ sm.tx = build_transaction(smlog.pre.ctx).tx
    /\ (smlog.n > 0 /\ smlog.pre.tag = "SentTxComplete"
          /\ LastOp \in PeerChanges /\ LastMutatorOk) =>
          sm.tag = "ReceivedChangeMsg"

\* the machine completed over a transaction with an input
C9_Completed ==
    /\ sm.tag = "NegotiationComplete"
    /\ smlog.ev = <<"received_tx_complete", "sent_tx_complete">>
    /\ Len(sm.tx.input) >= 1

\* C10: a new state machine is in ReceivedChangeMsg for the initiator and in
\* SentChangeMsg for the non-initiator, whatever else it is created with, and
\* its input, output and outpoint tables are empty and its received counters
\* zero.
C10_InitialState ==
    (smlog.n = 0 /\ sm.tag # "Indeterminate") =>
        /\ sm.tag = IF sm.ctx.holder_is_initiator THEN "ReceivedChangeMsg"
                    ELSE "SentChangeMsg"
        /\ sm.ctx.inputs = EmptyMap
        /\ sm.ctx.outputs = EmptyMap
        /\ sm.ctx.prevtx_outpoints = {}
        /\ sm.ctx.received_tx_add_input_count = 0
        /\ sm.ctx.received_tx_add_output_count = 0

\* a new machine of the initiator in a session that spends a shared input
C10_NewInitiator ==
    /\ smlog.n = 0
    /\ sm.tag = "ReceivedChangeMsg"
    /\ sm.ctx.holder_is_initiator
    /\ sm.ctx.shared_funding_input.some

----------------------------------------------------------------------------
(* Who speaks first (Spec) *)

\* neither constructor has been called since the two calls of new
NothingHandled == \A p \in Parties : before[p] = "none"

\* C11: constructing an initiator always yields a first outgoing message, for
\* any pending inputs and outputs that construction accepts (the first send
\* never aborts); constructing a non-initiator yields none; and a message of
\* the non-initiator is on the wire only as what its last handle_* call returned.
C11_InitiatorSpeaksFirst ==
    /\ NothingHandled =>
          /\ chan["B"].type \in {"tx_add_input", "tx_add_output", "tx_complete"}
          /\ Tag("A") \in SentMsgStates
          /\ chan["A"] = NoMsg
          /\ Tag("B") = "SentChangeMsg"
    /\ chan["A"] # NoMsg => before["B"] # "none" /\ MsgOf(ret["B"]) = chan["A"]

\* the initiator has not been called since new, its first message has been
\* handed to the non-initiator, whose answer is on the wire
C11_FirstMessageAnswered ==
    /\ before["A"] = "none"
    /\ before["B"] = "SentChangeMsg"
    /\ chan["A"].type \in {"tx_add_input", "tx_add_output", "tx_complete"}
    /\ cons["A"].inputs_to_contribute # <<>>

----------------------------------------------------------------------------
(* Serial ids of the holder (SpecGen) *)

\* the first SERIAL_ID_BYTES bytes of the entropy, most significant first
FirstBytesBigEndian(rand_bytes) ==
    SumSeq([i \in 1..SERIAL_ID_BYTES |-> rand_bytes[i] * 256 ^ (SERIAL_ID_BYTES - i)])

\* C12: for every value the entropy source returns, the serial id generated
\* for the holder is even when the holder is the initiator and odd otherwise,
\* and differs from the first bytes read big-endian in at most the lowest bit.
C12_HolderSerialIdParity ==
    gen.made =>
        /\ gen.serial_id % 2 = (IF gen.is_initiator THEN 0 ELSE 1)
        /\ gen.serial_id \div 2 = FirstBytesBigEndian(gen.rand_bytes) \div 2

\* the entropy reads as the largest odd value and the holder is the initiator:
\* the lowest bit was flipped
C12_LowestBitFlipped ==
    /\ gen.made
    /\ gen.is_initiator
    /\ \A i \in 1..SERIAL_ID_BYTES : gen.rand_bytes[i] = 255
    /\ gen.serial_id = FirstBytesBigEndian(gen.rand_bytes) - 1

----------------------------------------------------------------------------
(* The tables of a constructor (SpecPeer) *)

\* party p is still negotiating: its machine carries a context
Negotiating(p) == cons[p].made /\ Tag(p) \in SentMsgStates \cup ReceivedMsgStates
Ctx(p) == cons[p].state_machine.ctx

\* serial id s has the parity of party p's role
HolderParity(p, s) == is_for_initiator(s) = IsInitiator(p)

\* the entries of table under tag kind
OfKind(table, kind) == {s \in DOMAIN table : table[s].kind = kind}

\* every entry of table is a recorded contribution; Local entries and the
\* holder's recorded contributions have p's parity, Remote entries and the
\* peer's recorded contributions the other parity
ParityByContributor(p, table, record) ==
    /\ \A s \in DOMAIN table :
          /\ table[s].serial_id = s
          /\ \E h \in BagToSet(record) : h.serial_id = s
          /\ table[s].kind = "Local" => HolderParity(p, s)
          /\ table[s].kind = "Remote" => ~HolderParity(p, s)
    /\ \A h \in BagToSet(record) : (h.by = "holder") = HolderParity(p, h.serial_id)

\* C13: after every transition of a constructor, every entry of its input and
\* output tables has a serial id whose parity matches the role of the party
\* that contributed it: the holder's parity for what the holder sent, the
\* counterparty's parity for what was received.
C13_SerialIdParityByContributor ==
    \A p \in Parties :
        Negotiating(p) =>
            /\ ParityByContributor(p, Ctx(p).inputs, hist[p].ins)
            /\ ParityByContributor(p, Ctx(p).outputs, hist[p].outs)

\* a constructor whose tables hold an input of its own, an input of its peer
\* and an output of its peer
C13_BothPartiesContributed ==
    \E p \in Parties :
        /\ Negotiating(p)
        /\ OfKind(Ctx(p).inputs, "Local") # {}
        /\ OfKind(Ctx(p).inputs, "Remote") # {}
        /\ OfKind(Ctx(p).outputs, "Remote") # {}

\* the outpoint an input entry spends
Spends(input) == input.txin.previous_output

\* C14: after every transition, no two entries of a constructor's input table
\* spend the same (prev_txid, vout), whichever party added them and including
\* an entry for the shared funding input.
C14_NoOutpointSpentTwice ==
    \A p \in Parties :
        Negotiating(p) =>
            \A s, t \in DOMAIN Ctx(p).inputs :
                Spends(Ctx(p).inputs[s]) = Spends(Ctx(p).inputs[t]) => s = t

\* C15: after any sequence of sent and received messages, at most one entry
\* of a constructor's input table is tagged Shared; a peer cannot get a second
\* Shared entry accepted, under another serial id or another vout.
C15_AtMostOneSharedInput ==
    \A p \in Parties :
        Negotiating(p) => Cardinality(OfKind(Ctx(p).inputs, "Shared")) <= 1

\* C16: after every transition, no entry of a constructor's input table,
\* whether contributed by the holder or by the counterparty, has
\* sequence >= 0xFFFFFFFE.
C16_NoFinalSequence ==
    \A p \in Parties :
        Negotiating(p) =>
            \A s \in DOMAIN Ctx(p).inputs :
                ~SeqGE(Ctx(p).inputs[s].txin.sequence, SEQ_FFFFFFFE)

----------------------------------------------------------------------------
(* Checks of the received mutators (SpecCount, SpecSM) *)

\* the last transition ran the context mutator op on smlog.msg
Ran(op) == smlog.n > 0 /\ LastOp = op /\ HasEntry(smlog.pre.tag, LastEvent)

\* the message's serial id has the parity of the holder's counterparty
CounterpartyParity(ctx, m) == ctx.holder_is_initiator = (m.serial_id % 2 = 1)

FinalSequences == {SEQ_FFFFFFFE, SEQUENCE_MAX}

\* C17 as stated: for every received tx_add_input whose sequence is
\* 0xFFFFFFFE or 0xFFFFFFFF, the first such message aborts the negotiation
\* with IncorrectInputSequenceValue.
C17_FinalSequenceAborts ==
    (Ran("received_tx_add_input") /\ smlog.msg.sequence \in FinalSequences) =>
        sm = NegotiationAborted("IncorrectInputSequenceValue")

\* C17 as the code has it: a received tx_add_input whose sequence is
\* 0xFFFFFFFE or 0xFFFFFFFF always aborts the negotiation; the reason is
\* IncorrectInputSequenceValue unless one of the two checks made before the
\* sequence check fails: IncorrectSerialIdParity when the serial id has the
\* holder's parity, else ReceivedTooManyTxAddInputs when 4096 tx_add_input
\* messages were counted before it.
C17_FinalSequenceAbortsAfterEarlierChecks ==
    (Ran("received_tx_add_input") /\ smlog.msg.sequence \in FinalSequences) =>
        sm = NegotiationAborted(
                IF ~CounterpartyParity(smlog.pre.ctx, smlog.msg)
                THEN "IncorrectSerialIdParity"
                ELSE IF smlog.pre.ctx.received_tx_add_input_count
                          >= MAX_RECEIVED_TX_ADD_INPUT_COUNT
                THEN "ReceivedTooManyTxAddInputs"
                ELSE "IncorrectInputSequenceValue")

\* a tx_add_input with sequence 0xFFFFFFFE and a serial id of the right
\* parity was received within the limit and refused for its sequence
C17_RefusedForSequence ==
    /\ Ran("received_tx_add_input")
    /\ smlog.msg.sequence = SEQ_FFFFFFFE
    /\ CounterpartyParity(smlog.pre.ctx, smlog.msg)
    /\ sm = NegotiationAborted("IncorrectInputSequenceValue")

\* the machine s carries a context
HasContext(s) == s.tag \in SentMsgStates \cup ReceivedMsgStates

C19_ParityCheckedFirst ==
    \A op \in PeerChanges :
        (Ran(op) /\ ~CounterpartyParity(smlog.pre.ctx, smlog.msg)) =>
            /\ sm = NegotiationAborted("IncorrectSerialIdParity")
            /\ ReceivedMutator(smlog.pre.ctx, smlog.msg).ctx = smlog.pre.ctx

\* a tx_add_input that fails the parity, the count and the sequence check
\* was refused for its parity
C19_RefusedForParityOnly ==
    /\ Ran("received_tx_add_input")
    /\ ~CounterpartyParity(smlog.pre.ctx, smlog.msg)
    /\ smlog.pre.ctx.received_tx_add_input_count = MAX_RECEIVED_TX_ADD_INPUT_COUNT
    /\ smlog.msg.sequence \in FinalSequences
    /\ sm = NegotiationAborted("IncorrectSerialIdParity")

----------------------------------------------------------------------------
(* Removals (SpecPeer) *)

\* party p is handed a tx_remove_input or tx_remove_output in a state whose
\* transition runs the received mutator
ReceivesRemove(p) ==
    /\ Delivered(p)
    /\ chan[p].type \in {"tx_remove_input", "tx_remove_output"}
    /\ RunsReceivedMutator(cons[p].state_machine, chan[p])

\* the table and the record of contributions a removal m is about
TableOf(ctx, m) == IF m.type = "tx_remove_input" THEN ctx.inputs ELSE ctx.outputs
RecordOf(h, m) == IF m.type = "tx_remove_input" THEN h.ins ELSE h.outs

\* the serial ids under which the holder contributed
ByHolder(record) == {h.serial_id : h \in {x \in BagToSet(record) : x.by = "holder"}}

\* every entry the holder contributed is still in p's table after the call,
\* when the call left the negotiation going
HolderEntriesKept(p) ==
    cons'[p].state_machine.tag \in SentMsgStates \cup ReceivedMsgStates =>
        \A s \in DOMAIN TableOf(Ctx(p), chan[p]) \cap ByHolder(RecordOf(hist[p], chan[p])) :
            s \in DOMAIN TableOf(cons'[p].state_machine.ctx, chan[p])

\* C20 as stated: a received tx_remove_input or tx_remove_output never removes
\* an entry contributed by the holder, and one naming a serial id that is not
\* in the table aborts with SerialIdUnknown.
C20_OnlyContributorRemoves ==
    [][\A p \in Parties :
          ReceivesRemove(p) =>
              /\ HolderEntriesKept(p)
              /\ chan[p].serial_id \notin DOMAIN TableOf(Ctx(p), chan[p]) =>
                     AbortedWith(p, "SerialIdUnknown")]_vars

\* C20, amended: a received tx_remove_input or tx_remove_output never removes
\* an entry contributed by the holder, and one naming a serial id that is not
\* in the table aborts: with IncorrectSerialIdParity when the serial id has
\* the holder's parity, with SerialIdUnknown otherwise.
C20_OnlyContributorRemovesParityFirst ==
    [][\A p \in Parties :
          ReceivesRemove(p) =>
              /\ HolderEntriesKept(p)
              /\ chan[p].serial_id \notin DOMAIN TableOf(Ctx(p), chan[p]) =>
                     AbortedWith(p, IF HolderParity(p, chan[p].serial_id)
                                    THEN "IncorrectSerialIdParity"
                                    ELSE "SerialIdUnknown")]_vars

\* a constructor that accepted one input of its peer and holds none of them
\* any more, while its own input is still in the table
C20_PeerRemovedItsInput ==
    \E p \in Parties :
        /\ Negotiating(p)
        /\ Ctx(p).received_tx_add_input_count = 1
        /\ OfKind(Ctx(p).inputs, "Local") # {}
        /\ \A s \in DOMAIN Ctx(p).inputs : HolderParity(p, s)

----------------------------------------------------------------------------
(* Serial ids used twice (Spec, SpecSM) *)

\* no two of the holder's contributions in record went out under one serial id
HolderSerialIdsDistinct(record) ==
    \A h \in BagToSet(record) :
        h.by = "holder" =>
            /\ record[h] = 1
            /\ \A g \in BagToSet(record) :
                  (g.by = "holder" /\ g.serial_id = h.serial_id) => g = h

\* C21: when the entropy source yields the same serial id for two of the
\* holder's inputs (or two of its outputs), the constructor that is about to
\* emit the second aborts with DuplicateSerialId: no constructor has emitted
\* two inputs, or two outputs, under one serial id.
C21_DuplicateRejectedWhenSent ==
    \A p \in Parties :
        /\ HolderSerialIdsDistinct(hist[p].ins)
        /\ HolderSerialIdsDistinct(hist[p].outs)

\* the reason for which a received tx_add_input is refused before its serial id
\* is looked up in the table, "None" when it gets that far
InputRefusedBeforeLookup(ctx, m) ==
    IF ~CounterpartyParity(ctx, m) THEN "IncorrectSerialIdParity"
    ELSE IF ctx.received_tx_add_input_count >= MAX_RECEIVED_TX_ADD_INPUT_COUNT
    THEN "ReceivedTooManyTxAddInputs"
    ELSE IF m.sequence \in FinalSequences THEN "IncorrectInputSequenceValue"
    ELSE IF HasOutput(m.prevtx, m.prevtx_out)
    THEN (IF \/ ~is_witness_program(OutputAt(m.prevtx, m.prevtx_out).script_pubkey)
             \/ OutPoint(IF m.shared_input_txid # "none" THEN m.shared_input_txid
                         ELSE txid(m.prevtx), m.prevtx_out) \in ctx.prevtx_outpoints
          THEN "PrevTxOutInvalid" ELSE "None")
    ELSE IF m.shared_input_txid = "none" THEN "PrevTxOutInvalid"
    ELSE "None"

\* likewise for a received tx_add_output
OutputRefusedBeforeLookup(ctx, m) ==
    IF ~CounterpartyParity(ctx, m) THEN "IncorrectSerialIdParity"
    ELSE IF ctx.received_tx_add_output_count >= MAX_RECEIVED_TX_ADD_OUTPUT_COUNT
    THEN "ReceivedTooManyTxAddOutputs"
    ELSE IF m.sats < dust_value(m.script) THEN "BelowDustLimit"
    ELSE IF saturating_add(SumOver([s \in DOMAIN ctx.outputs |-> ctx.outputs[s].txout.value],
                                   DOMAIN ctx.outputs), m.sats)
              > TOTAL_BITCOIN_SUPPLY_SATOSHIS
    THEN "ExceededMaximumSatsAllowed"
    ELSE IF m.script \notin {"p2wpkh", "p2wsh", "funding", "p2tr"} THEN "InvalidOutputScript"
    ELSE "None"

\* the last transition ran the received add mutator op on a message whose
\* serial id was a key of the table the message adds to
ReceivedDuplicate(op) ==
    /\ Ran(op)
    /\ smlog.msg.serial_id \in
          DOMAIN (IF op = "received_tx_add_input" THEN smlog.pre.ctx.inputs
                  ELSE smlog.pre.ctx.outputs)

\* the mutator left both tables as it found them
TablesKept ==
    /\ ReceivedMutator(smlog.pre.ctx, smlog.msg).ctx.inputs = smlog.pre.ctx.inputs
    /\ ReceivedMutator(smlog.pre.ctx, smlog.msg).ctx.outputs = smlog.pre.ctx.outputs

\* C22 as stated: a received tx_add_input (tx_add_output) whose serial id is
\* already a key of the input (output) table aborts with DuplicateSerialId,
\* and the entry stored under that serial id is not replaced.
C22_DuplicateAborts ==
    \A op \in {"received_tx_add_input", "received_tx_add_output"} :
        ReceivedDuplicate(op) =>
            /\ sm = NegotiationAborted("DuplicateSerialId")
            /\ TablesKept

\* C22, amended: a received tx_add_input (tx_add_output) whose serial id is
\* already a key of the input (output) table aborts, with the reason of the
\* first check it fails before the lookup (parity, count, sequence and prevout
\* for an input; parity, count, dust, supply and script for an output) and
\* with DuplicateSerialId when it passes them all; the entry stored under
\* that serial id is not replaced.
C22_DuplicateAbortsAfterEarlierChecks ==
    /\ ReceivedDuplicate("received_tx_add_input") =>
          /\ sm = NegotiationAborted(
                    IF InputRefusedBeforeLookup(smlog.pre.ctx, smlog.msg) = "None"
                    THEN "DuplicateSerialId"
                    ELSE InputRefusedBeforeLookup(smlog.pre.ctx, smlog.msg))
          /\ TablesKept
    /\ ReceivedDuplicate("received_tx_add_output") =>
          /\ sm = NegotiationAborted(
                    IF OutputRefusedBeforeLookup(smlog.pre.ctx, smlog.msg) = "None"
                    THEN "DuplicateSerialId"
                    ELSE OutputRefusedBeforeLookup(smlog.pre.ctx, smlog.msg))
          /\ TablesKept

\* a tx_add_output that passes every earlier check was refused because its
\* serial id was taken
C22_RefusedDuplicateOutput ==
    /\ ReceivedDuplicate("received_tx_add_output")
    /\ OutputRefusedBeforeLookup(smlog.pre.ctx, smlog.msg) = "None"
    /\ sm = NegotiationAborted("DuplicateSerialId")

----------------------------------------------------------------------------
(* Prevouts of what the holder sends (SpecPeer) *)

\* C23: when a constructor is about to emit a tx_add_input whose outpoint is
\* already in its dedup set, it aborts with PrevTxOutInvalid and emits no
\* message.
C23_SendingEnforcesUniqueness ==
    [][\A p \in Parties :
          Delivered(p) =>
              LET received == StateMachine_received(cons[p].state_machine, chan[p])
              IN (/\ received.tag \in ReceivedMsgStates
                  /\ cons[p].inputs_to_contribute # <<>>
                  /\ Spends(PopLast(cons[p].inputs_to_contribute))
                        \in received.ctx.prevtx_outpoints) =>
                     AbortedWith(p, "PrevTxOutInvalid")]_vars

----------------------------------------------------------------------------
(* Checks of build (SpecBuild) *)

\* the last transition ran build_transaction on the context of the state
\* before it
Builds ==
    /\ smlog.n > 0
    /\ <<smlog.pre.tag, LastEvent, "NegotiationComplete">> \in TransitionTable

\* the serial ids of table that have the counterparty's parity
TheirIds(ctx, table) == {s \in DOMAIN table : ctx.holder_is_initiator = (s % 2 = 1)}

\* the sum of f over the serial ids in ids
Total(f, ids) == SumSeq([i \in 1..Len(ids) |-> f[ids[i]]])

\* the counterparty's total value in: the prevout value of its inputs, its
\* share of a shared input
TheirValueIn(ctx) ==
    Total([s \in TheirIds(ctx, ctx.inputs) |->
              IF ctx.inputs[s].kind = "Shared"
              THEN ctx.inputs[s].to_remote_value_satoshis
              ELSE ctx.inputs[s].prevout_value],
          SetToSortedSeq(TheirIds(ctx, ctx.inputs)))

\* the counterparty's total value out: the value of its outputs, its share of
\* the shared output
TheirValueOut(ctx) ==
    Total([s \in TheirIds(ctx, ctx.outputs) |->
              IF ctx.outputs[s].kind = "Shared"
              THEN ctx.outputs[s].to_remote_value_satoshis
              ELSE ctx.outputs[s].txout.value],
          SetToSortedSeq(TheirIds(ctx, ctx.outputs)))

\* C24: build aborts with OutputsValueExceedsInputsValue exactly when the
\* counterparty's total value in is less than its total value out; the check
\* comes before the count, fee and weight checks, so it decides the reason
\* when several would apply.
C24_ValueCheckFirst ==
    Builds =>
        (sm = NegotiationAborted("OutputsValueExceedsInputsValue")
            <=> TheirValueIn(smlog.pre.ctx) < TheirValueOut(smlog.pre.ctx))

\* a build of more than 252 inputs whose counterparty took out more than it
\* put in, refused for the values
C24_ValueCheckDecides ==
    /\ Builds
    /\ TheirValueIn(smlog.pre.ctx) < TheirValueOut(smlog.pre.ctx)
    /\ Cardinality(DOMAIN smlog.pre.ctx.inputs) > MAX_INPUTS_OUTPUTS_COUNT
    /\ \E s \in DOMAIN smlog.pre.ctx.outputs : smlog.pre.ctx.outputs[s].kind = "Shared"
    /\ sm = NegotiationAborted("OutputsValueExceedsInputsValue")

\* the value check and the count check of build pass
PassesValueAndCount(ctx) ==
    /\ TheirValueIn(ctx) >= TheirValueOut(ctx)
    /\ Cardinality(DOMAIN ctx.inputs) <= MAX_INPUTS_OUTPUTS_COUNT
    /\ Cardinality(DOMAIN ctx.outputs) <= MAX_INPUTS_OUTPUTS_COUNT

\* the weight of what the counterparty added: value and serialized script of
\* each of its outputs, an input without witness for each of its inputs
TheirWeight(ctx) ==
    Total([s \in TheirIds(ctx, ctx.outputs) |->
              (8 + consensus_encode_len(ctx.outputs[s].txout.script_pubkey)) * 4],
          SetToSortedSeq(TheirIds(ctx, ctx.outputs)))
    + (BASE_INPUT_WEIGHT + EMPTY_SCRIPT_SIG_WEIGHT) * Cardinality(TheirIds(ctx, ctx.inputs))

\* the fee the counterparty has to bring: for its own weight, and for the
\* common fields when the holder is the non-initiator
TheirRequiredFee(ctx) ==
    fee_for_weight(ctx.feerate_sat_per_kw, TheirWeight(ctx))
    + (IF ctx.holder_is_initiator THEN 0 ELSE fee_for_weight(ctx.feerate_sat_per_kw, 42))

\* C25: if the value check and the count check pass, build aborts with
\* InsufficientFees exactly when the counterparty's total in minus total out
\* is less than the fee for the weight of its outputs and inputs, plus the
\* fee of the common fields when the holder is the non-initiator.
C25_FeeCheck ==
    (Builds /\ PassesValueAndCount(smlog.pre.ctx)) =>
        (sm = NegotiationAborted("InsufficientFees")
            <=> TheirValueIn(smlog.pre.ctx) - TheirValueOut(smlog.pre.ctx)
                    < TheirRequiredFee(smlog.pre.ctx))

\* a non-initiator whose tables are empty refused to build for the fees
C25_NothingContributed ==
    /\ Builds
    /\ ~smlog.pre.ctx.holder_is_initiator
    /\ DOMAIN smlog.pre.ctx.inputs = {}
    /\ DOMAIN smlog.pre.ctx.outputs = {}
    /\ sm = NegotiationAborted("InsufficientFees")

\* the counterparty brought the fee for its own contributions, yet less than
\* that and the fee of the common fields
CoversOnlyOwnWeight(ctx) ==
    /\ PassesValueAndCount(ctx)
    /\ TheirValueIn(ctx) - TheirValueOut(ctx)
          >= fee_for_weight(ctx.feerate_sat_per_kw, TheirWeight(ctx))
    /\ TheirValueIn(ctx) - TheirValueOut(ctx)
          < fee_for_weight(ctx.feerate_sat_per_kw, TheirWeight(ctx))
            + fee_for_weight(ctx.feerate_sat_per_kw, 42)

\* C26 as stated: the party that must cover the fee of the common fields on
\* top of the fee for its own contributions is the non-initiator: a
\* counterparty that covers only its own weight is refused exactly when it is
\* the non-initiator.
C26_NonInitiatorCoversCommonFields ==
    (Builds /\ CoversOnlyOwnWeight(smlog.pre.ctx)) =>
        (sm = NegotiationAborted("InsufficientFees") <=> smlog.pre.ctx.holder_is_initiator)

\* C26, amended: the party that must cover the fee of the common fields on
\* top of the fee for its own contributions is the initiator: a counterparty
\* that covers only its own weight is refused exactly when it is the
\* initiator.
C26_InitiatorCoversCommonFields ==
    (Builds /\ CoversOnlyOwnWeight(smlog.pre.ctx)) =>
        (sm = NegotiationAborted("InsufficientFees") <=> ~smlog.pre.ctx.holder_is_initiator)

\* a non-initiator refused an initiator that had added an input and covered
\* its own weight only
C26_InitiatorRefused ==
    /\ Builds
    /\ CoversOnlyOwnWeight(smlog.pre.ctx)
    /\ TheirIds(smlog.pre.ctx, smlog.pre.ctx.inputs) # {}
    /\ ~smlog.pre.ctx.holder_is_initiator
    /\ sm = NegotiationAborted("InsufficientFees")

\* one of the tables holds more entries than a transaction may have
TooManyEntries(ctx) ==
    \/ Cardinality(DOMAIN ctx.inputs) > MAX_INPUTS_OUTPUTS_COUNT
    \/ Cardinality(DOMAIN ctx.outputs) > MAX_INPUTS_OUTPUTS_COUNT

\* the transaction of NegotiationComplete has at most 252 inputs and outputs
CompleteWithinLimits ==
    sm.tag = "NegotiationComplete" =>
        /\ Len(sm.tx.input) <= MAX_INPUTS_OUTPUTS_COUNT
        /\ Len(sm.tx.output) <= MAX_INPUTS_OUTPUTS_COUNT

\* C27 as stated: build aborts with ExceededNumberOfInputsOrOutputs when the
\* input table or the output table has more than 252 entries, so every
\* transaction carried by NegotiationComplete has at most 252 inputs and at
\* most 252 outputs.
C27_CountCheck ==
    /\ (Builds /\ TooManyEntries(smlog.pre.ctx)) =>
          sm = NegotiationAborted("ExceededNumberOfInputsOrOutputs")
    /\ CompleteWithinLimits

\* C27, amended: build aborts when the input table or the output table has
\* more than 252 entries, with OutputsValueExceedsInputsValue when the
\* counterparty's value in is less than its value out and with
\* ExceededNumberOfInputsOrOutputs otherwise, so every transaction carried by
\* NegotiationComplete has at most 252 inputs and at most 252 outputs.
C27_CountCheckAfterValueCheck ==
    /\ (Builds /\ TooManyEntries(smlog.pre.ctx)) =>
          sm = NegotiationAborted(
                  IF TheirValueIn(smlog.pre.ctx) < TheirValueOut(smlog.pre.ctx)
                  THEN "OutputsValueExceedsInputsValue"
                  ELSE "ExceededNumberOfInputsOrOutputs")
    /\ CompleteWithinLimits

\* a build of 253 inputs and no more than 252 outputs, refused for the count
C27_RefusedForCount ==
    /\ Builds
    /\ Cardinality(DOMAIN smlog.pre.ctx.inputs) = MAX_INPUTS_OUTPUTS_COUNT + 1
    /\ Cardinality(DOMAIN smlog.pre.ctx.outputs) <= MAX_INPUTS_OUTPUTS_COUNT
    /\ sm = NegotiationAborted("ExceededNumberOfInputsOrOutputs")

----------------------------------------------------------------------------
(* The funding output (SpecSM) *)

\* C28: an output entry is tagged Shared only when both its value and its
\* script equal those of the pre-agreed new_funding_output.
C28_SharedOutputMatchesFundingOutput ==
    HasContext(sm) =>
        \A s \in DOMAIN sm.ctx.outputs :
            sm.ctx.outputs[s].kind = "Shared" =>
                sm.ctx.outputs[s].txout = sm.ctx.new_funding_output

----------------------------------------------------------------------------
(* What handle_tx_complete returns (SpecPeer) *)

\* party p still has an input or an output to contribute
HasPending(p) ==
    cons[p].inputs_to_contribute # <<>> \/ cons[p].outputs_to_contribute # <<>>

\* this step is a call of handle_tx_complete on party p
HandlesTxComplete(p) == Delivered(p) /\ chan[p].type = "tx_complete"

\* the call returned SendTxMessage with a tx_add_input or a tx_add_output,
\* that message is on the wire, and the holder negotiates on without a
\* transaction
RepliedWithContribution(p) ==
    /\ ret'[p].kind = "SendTxMessage"
    /\ ret'[p].msg.type \in {"tx_add_input", "tx_add_output"}
    /\ chan'[Other(p)] = ret'[p].msg
    /\ cons'[p].state_machine.tag = "SentChangeMsg"

\* C29: handle_tx_complete returns exactly one of three outcomes according to
\* the state before the call: NegotiationComplete(tx) with no outgoing message
\* when the holder was in SentTxComplete and build succeeds;
\* SendTxComplete(tx_complete, tx) when the holder was in SentChangeMsg with
\* nothing pending and build succeeds; SendTxMessage(tx_add_input or
\* tx_add_output) when the holder was in SentChangeMsg with a pending
\* contribution, in which case nothing is built.
C29_ThreeOutcomes ==
    [][\A p \in Parties :
          HandlesTxComplete(p) =>
              /\ (Tag(p) = "SentTxComplete" /\ build_transaction(Ctx(p)).ok) =>
                    /\ ret'[p] = RetNegotiationComplete(build_transaction(Ctx(p)).tx)
                    /\ chan'[Other(p)] = NoMsg
                    /\ cons'[p].state_machine =
                          NegotiationComplete(build_transaction(Ctx(p)).tx)
              /\ (Tag(p) = "SentChangeMsg" /\ ~HasPending(p)
                     /\ build_transaction(Ctx(p)).ok) =>
                    /\ ret'[p] = SendTxComplete(TxComplete, build_transaction(Ctx(p)).tx)
                    /\ chan'[Other(p)] = TxComplete
                    /\ cons'[p].state_machine =
                          NegotiationComplete(build_transaction(Ctx(p)).tx)
              /\ (Tag(p) = "SentChangeMsg" /\ HasPending(p)) =>
                    RepliedWithContribution(p)]_vars
\* C29 as the code has it: the third outcome needs the sent_* check of the
\* pending contribution to pass; when it refuses (the input spends a prevout
\* that is in the dedup set already), handle_tx_complete returns that
\* AbortReason, sends nothing and the negotiation is aborted.
C29_ThreeOutcomesUnlessSendRefused ==
    [][\A p \in Parties :
          HandlesTxComplete(p) =>
              /\ (Tag(p) = "SentTxComplete" /\ build_transaction(Ctx(p)).ok) =>
                    /\ ret'[p] = RetNegotiationComplete(build_transaction(Ctx(p)).tx)
                    /\ chan'[Other(p)] = NoMsg
                    /\ cons'[p].state_machine =
                          NegotiationComplete(build_transaction(Ctx(p)).tx)
              /\ (Tag(p) = "SentChangeMsg" /\ ~HasPending(p)
                     /\ build_transaction(Ctx(p)).ok) =>
                    /\ ret'[p] = SendTxComplete(TxComplete, build_transaction(Ctx(p)).tx)
                    /\ chan'[Other(p)] = TxComplete
                    /\ cons'[p].state_machine =
                          NegotiationComplete(build_transaction(Ctx(p)).tx)
              /\ (Tag(p) = "SentChangeMsg" /\ HasPending(p)) =>
                    IF SentMutator(cons[p], cons[p].state_machine).ok
                    THEN RepliedWithContribution(p)
                    ELSE AbortedWith(p, SentMutator(cons[p], cons[p].state_machine).reason)]_vars

\* a holder that had a contribution pending answered tx_complete with it and
\* negotiates on; its peer waits for the answer to its tx_complete
C29_AnsweredWithContribution ==
    \E p \in Parties :
        /\ before[p] = "SentChangeMsg"
        /\ ret[p].kind = "SendTxMessage"
        /\ ret[p].msg.type \in {"tx_add_input", "tx_add_output"}
        /\ chan[Other(p)] = ret[p].msg
        /\ Tag(p) = "SentChangeMsg"
        /\ Tag(Other(p)) = "SentTxComplete"
----------------------------------------------------------------------------
(* Prevouts of received inputs (SpecSM) *)

\* the outpoint a tx_add_input message resolves to
ResolvedOutPoint(m) ==
    OutPoint(IF m.shared_input_txid # "none" THEN m.shared_input_txid ELSE txid(m.prevtx),
             m.prevtx_out)

\* the three prevout cases of a tx_add_input message m received on ctx
VoutMissingAndNotShared(m) ==
    ~HasOutput(m.prevtx, m.prevtx_out) /\ m.shared_input_txid = "none"
NotWitnessProgram(m) ==
    /\ HasOutput(m.prevtx, m.prevtx_out)
    /\ ~is_witness_program(OutputAt(m.prevtx, m.prevtx_out).script_pubkey)
AlreadyInDedupSet(ctx, m) == ResolvedOutPoint(m) \in ctx.prevtx_outpoints

----------------------------------------------------------------------------
(* Prevouts of removed inputs (SpecPeer) *)

\* the outpoints the entries of the input table of ctx spend
SpentOutPoints(ctx) == {ctx.inputs[s].txin.previous_output : s \in DOMAIN ctx.inputs}

\* C31: a received tx_add_input is rejected as a duplicate prevout only when
\* its outpoint equals that of an input previously added and not since
\* removed: a tx_add_input that passes every other check and spends an
\* outpoint no entry of the input table spends (for instance the outpoint of
\* an input the peer has removed with tx_remove_input) is accepted by
\* received_tx_add_input.
C31_RemovedPrevoutAcceptedAgain ==
    [][\A p \in Parties :
          (/\ Delivered(p)
           /\ chan[p].type = "tx_add_input"
           /\ Tag(p) \in SentMsgStates
           /\ CounterpartyParity(Ctx(p), chan[p])
           /\ Ctx(p).received_tx_add_input_count < MAX_RECEIVED_TX_ADD_INPUT_COUNT
           /\ chan[p].sequence \notin FinalSequences
           /\ HasOutput(chan[p].prevtx, chan[p].prevtx_out)
           /\ is_witness_program(OutputAt(chan[p].prevtx, chan[p].prevtx_out).script_pubkey)
           /\ chan[p].serial_id \notin DOMAIN Ctx(p).inputs
           /\ ResolvedOutPoint(chan[p]) \notin SpentOutPoints(Ctx(p)))
          => received_tx_add_input(Ctx(p), chan[p]).ok]_vars
----------------------------------------------------------------------------
(* SpecOut: outputs of every value and script, received mid-negotiation *)

\* serial ids of the outputs already in the table: the holder's and the peer's
HeldOutputId(is_initiator) == IF is_initiator THEN 4 ELSE 5
PeerOutputId(is_initiator) == IF is_initiator THEN 3 ELSE 2

\* the output tables the message meets: empty, a holder output, a holder
\* output near u64::MAX, a peer output just short of the whole supply
OutputTables(is_initiator) ==
    {<<>>,
     HeldOutputId(is_initiator) :>
         LocalOutput(HeldOutputId(is_initiator), TxOut(PeerOutputValue, "p2wsh")),
     HeldOutputId(is_initiator) :>
         LocalOutput(HeldOutputId(is_initiator), TxOut(U64_MAX - 100, "p2wsh")),
     PeerOutputId(is_initiator) :>
         RemoteOutput(PeerOutputId(is_initiator),
                      TxOut(TOTAL_BITCOIN_SUPPLY_SATOSHIS - 300, "p2wsh"))}

OutScripts == {"p2wsh", "p2wpkh", "p2tr", "p2sh", "v0other"}

\* per script: one satoshi below its dust value, its dust value, the whole
\* supply and one satoshi more
OutMsgs ==
    {TxAddOutput(i, v, s) :
        i \in 0..1, s \in OutScripts,
        v \in {1, 293, 294, 329, 330, 539, 540,
               TOTAL_BITCOIN_SUPPLY_SATOSHIS, TOTAL_BITCOIN_SUPPLY_SATOSHIS + 1}}

WithOutputs(s, outputs) == [s EXCEPT !.ctx.outputs = outputs]

InitOut ==
    \E is_initiator \in BOOLEAN :
    \E outputs \in OutputTables(is_initiator) :
        /\ sm = WithOutputs(StateMachine_new(FEERATE, is_initiator, LOCKTIME,
                                             NoSharedInput, NewFundingOutput, 0, 0),
                            outputs)
        /\ smlog = NoSM
        /\ cons = [q \in Parties |-> NotMade]
        /\ chan = [q \in Parties |-> NoMsg]
        /\ ret = [q \in Parties |-> NoRet]
        /\ calls = 0
        /\ before = [q \in Parties |-> "none"]
        /\ hist = [q \in Parties |-> NoContributions]
        /\ gen = NoGen

OutReceivedTxAddOutput ==
    \E m \in OutMsgs :
        SmStep("received_tx_add_output", m, StateMachine_received_tx_add_output(sm, m))

NextOut == OutReceivedTxAddOutput \/ SmSentTxComplete

SpecOut == InitOut /\ [][NextOut]_vars

----------------------------------------------------------------------------
(* Checks of a received output (SpecOut) *)

AcceptedOutputScripts == {"p2wpkh", "p2wsh", "funding", "p2tr"}

\* the sum of the values of the outputs of table, capped at u64::MAX
TableValue(table) ==
    IF Total([s \in DOMAIN table |-> table[s].txout.value], SetToSortedSeq(DOMAIN table))
          >= U64_MAX
    THEN U64_MAX
    ELSE Total([s \in DOMAIN table |-> table[s].txout.value], SetToSortedSeq(DOMAIN table))

\* the first of the three checks that message m fails on ctx, "None" when it
\* passes all three
FirstFailedOutputCheck(ctx, m) ==
    IF m.sats < dust_value(m.script) THEN "BelowDustLimit"
    ELSE IF TableValue(ctx.outputs) > TOTAL_BITCOIN_SUPPLY_SATOSHIS - m.sats
    THEN "ExceededMaximumSatsAllowed"
    ELSE IF m.script \notin AcceptedOutputScripts THEN "InvalidOutputScript"
    ELSE "None"

\* C32: a received tx_add_output with valid parity and count is checked in this
\* order: a value below the script's dust value aborts with BelowDustLimit;
\* else the saturating sum of the values of all outputs in the table plus this
\* value above the total supply aborts with ExceededMaximumSatsAllowed; else a
\* script that is not v0 P2WPKH, v0 P2WSH or a witness program of version >= 1
\* aborts with InvalidOutputScript; so every counterparty-contributed output
\* of the table satisfies all three conditions.
C32_OutputChecksInOrder ==
    /\ (/\ Ran("received_tx_add_output")
        /\ CounterpartyParity(smlog.pre.ctx, smlog.msg)
        /\ smlog.pre.ctx.received_tx_add_output_count < MAX_RECEIVED_TX_ADD_OUTPUT_COUNT)
       => IF FirstFailedOutputCheck(smlog.pre.ctx, smlog.msg) # "None"
          THEN sm = NegotiationAborted(FirstFailedOutputCheck(smlog.pre.ctx, smlog.msg))
          ELSE sm.tag = "NegotiationAborted" =>
                  sm.reason \notin {"BelowDustLimit", "ExceededMaximumSatsAllowed",
                                    "InvalidOutputScript"}
    /\ HasContext(sm) =>
          \A s \in TheirIds(sm.ctx, sm.ctx.outputs) :
              /\ sm.ctx.outputs[s].txout.value >= dust_value(sm.ctx.outputs[s].txout.script_pubkey)
              /\ sm.ctx.outputs[s].txout.value <= TOTAL_BITCOIN_SUPPLY_SATOSHIS
              /\ sm.ctx.outputs[s].txout.script_pubkey \in AcceptedOutputScripts

\* a peer output that passes the three checks went into a table that held a
\* peer output already
C32_SecondPeerOutputAccepted ==
    /\ Ran("received_tx_add_output")
    /\ sm.tag = "ReceivedChangeMsg"
    /\ Cardinality(TheirIds(sm.ctx, sm.ctx.outputs)) = 2
----------------------------------------------------------------------------
(* The order in which a constructor sends (Spec, SpecPeer) *)

\* the message party p emitted last, while it is on the wire
Emitted(p) == chan[Other(p)]

\* the call of this step made party p emit a message
Emits(p) == Delivered(p) /\ chan'[Other(p)].type # "none"

\* what is on the wire from p agrees with what p still has pending
SentInOrder(p) ==
    /\ Emitted(p).type \notin {"tx_remove_input", "tx_remove_output"}
    /\ Emitted(p).type = "tx_add_output" => cons[p].inputs_to_contribute = <<>>
    /\ Emitted(p).type = "tx_complete" =>
          cons[p].inputs_to_contribute = <<>> /\ cons[p].outputs_to_contribute = <<>>

\* the emission of this step takes the last pending input, else the last
\* pending output, off its list, and is tx_complete when both lists are empty
TakesNextPending(p) ==
    IF cons[p].inputs_to_contribute # <<>>
    THEN /\ chan'[Other(p)] = TxAddInputFor(PopLast(cons[p].inputs_to_contribute))
         /\ Len(cons'[p].inputs_to_contribute) = Len(cons[p].inputs_to_contribute) - 1
         /\ cons'[p].outputs_to_contribute = cons[p].outputs_to_contribute
    ELSE IF cons[p].outputs_to_contribute # <<>>
    THEN /\ chan'[Other(p)] = TxAddOutputFor(PopLast(cons[p].outputs_to_contribute))
         /\ Len(cons'[p].outputs_to_contribute) = Len(cons[p].outputs_to_contribute) - 1
         /\ cons'[p].inputs_to_contribute = <<>>
    ELSE /\ chan'[Other(p)] = TxComplete
         /\ cons'[p].inputs_to_contribute = <<>>
         /\ cons'[p].outputs_to_contribute = <<>>

\* C33: a constructor sends its contributions in a fixed order: it never emits
\* tx_add_output while it still has a pending input, never emits tx_complete
\* while it still has a pending input or output, emits each pending
\* contribution at most once (every emission takes one entry off the pending
\* lists and they never grow), and once it has emitted a tx_complete every
\* message it emits afterwards is a tx_complete; it never emits a remove.
C33_SendsInFixedOrder ==
    /\ [](\A p \in Parties : cons[p].made => SentInOrder(p))
    /\ [][\A p \in Parties :
             cons[p].made =>
                /\ Len(cons'[p].inputs_to_contribute) <= Len(cons[p].inputs_to_contribute)
                /\ Len(cons'[p].outputs_to_contribute) <= Len(cons[p].outputs_to_contribute)
                /\ Emits(p) => TakesNextPending(p)]_vars

\* the initiator has sent an input and then an output and then tx_complete,
\* and its peer has answered tx_complete with the transaction
C33_SentInputOutputComplete ==
    /\ cons["A"].made
    /\ Tag("A") = "SentTxComplete"
    /\ BagCardinality(hist["A"].ins) >= 1
    /\ BagCardinality(hist["A"].outs) >= 1
    /\ Emitted("B") = TxComplete
    /\ ret["B"].kind = "SendTxComplete"
----------------------------------------------------------------------------
(* Turns of a two-party run (Spec) *)

\* the messages on the wire
InFlight == {p \in Parties : chan[p].type # "none"}

\* C34: in a two-party run the messages strictly alternate: at most one
\* message is in flight at any time, every successful handle_* call consumes
\* one message and emits exactly one, except a handle_tx_complete that returns
\* the bare NegotiationComplete outcome, which emits none and ends the
\* exchange.
C34_MessagesAlternate ==
    /\ [](Cardinality(InFlight) <= 1)
    /\ [][\A p \in Parties :
             (Delivered(p) /\ ret'[p].kind # "Err") =>
                /\ chan'[p] = NoMsg
                /\ IF ret'[p].kind = "NegotiationComplete"
                   THEN /\ chan[p].type = "tx_complete"
                        /\ chan'[Other(p)] = NoMsg
                        /\ \A q \in Parties : cons'[q].state_machine.tag = "NegotiationComplete"
                   ELSE /\ ret'[p].kind \in {"Ok", "SendTxMessage", "SendTxComplete"}
                        /\ chan'[Other(p)] = ret'[p].msg
                        /\ chan'[Other(p)].type # "none"]_vars

\* the exchange ended on the initiator's bare NegotiationComplete, nothing is
\* in flight, and the transaction has two contributions or more
C34_EndedAfterAlternation ==
    /\ ret["A"].kind = "NegotiationComplete"
    /\ ret["B"].kind = "SendTxComplete"
    /\ InFlight = {}
    /\ BagCardinality(hist["B"].ins) + BagCardinality(hist["B"].outs) >= 2
----------------------------------------------------------------------------
(* SpecLive: a two-party run in which every message is delivered *)

\* what the entry point for message m returns on constructor self
HandleResult(self, m) ==
    CASE m.type = "tx_add_input" -> handle_tx_add_input(self, m)
      [] m.type = "tx_add_output" -> handle_tx_add_output(self, m)
      [] m.type = "tx_remove_input" -> handle_tx_remove_input(self, m)
      [] m.type = "tx_remove_output" -> handle_tx_remove_output(self, m)
      [] m.type = "tx_complete" -> handle_tx_complete(self, m)

\* the message on the wire towards p is handed to p; calls counts the
\* messages delivered so far
LiveDeliver(p) ==
    /\ cons[p].made
    /\ chan[p].type # "none"
    /\ Handle(p, chan[p], HandleResult(cons[p], chan[p]))
    /\ calls' = calls + 1
    /\ UNCHANGED <<sm, smlog, gen>>

NextLive == LiveDeliver("A") \/ LiveDeliver("B")

\* a delivery: possible whenever a message is on the wire, and every step of
\* NextLive is one
Delivery ==
    /\ \E p \in Parties : cons[p].made /\ chan[p].type # "none"
    /\ calls' = calls + 1

\* the test driver loops until both are done or one fails: a message on the
\* wire is always delivered
SpecLive == Init /\ [][NextLive]_vars /\ WF_calls(Delivery)

----------------------------------------------------------------------------
(* Termination of a two-party run (SpecLive) *)

\* the entries of bag b contributed by `by`, counted as often as they occur
CountBy(b, by) == BagCardinality([e \in {x \in DOMAIN b : x.by = by} |-> b[e]])

\* the contributions party p has put on the wire: its own record of them, or
\* its peer's once p has aborted and dropped its record
SentBy(p) ==
    IF Tag(p) = "NegotiationAborted"
    THEN CountBy(hist[Other(p)].ins, "peer") + CountBy(hist[Other(p)].outs, "peer")
    ELSE CountBy(hist[p].ins, "holder") + CountBy(hist[p].outs, "holder")

PendingOf(p) == Len(cons[p].inputs_to_contribute) + Len(cons[p].outputs_to_contribute)

\* the pending inputs and outputs the two constructors started with, less
\* one that was popped by a send that failed
StartedWith == PendingOf("A") + SentBy("A") + PendingOf("B") + SentBy("B")

\* the messages emitted so far: delivered or in flight
Messages == calls + Cardinality(InFlight)

SomeoneDone == \E p \in Parties : Tag(p) \in {"NegotiationComplete", "NegotiationAborted"}

\* C35: a two-party run between two constructors with finite pending
\* contributions, with every emitted message eventually delivered, always
\* reaches a point where at least one constructor is in NegotiationComplete or
\* NegotiationAborted, and the number of messages is bounded by the total
\* number of pending inputs and outputs of both parties plus a constant: the
\* two tx_complete that end the exchange.
C35_TerminatesWithinPendingPlusTwo ==
    /\ <>SomeoneDone
    /\ [](Messages <= StartedWith + 2)

\* C35 as the code has it: the run terminates, and the number of messages is
\* bounded by twice the number of pending contributions plus two, because a
\* party that has nothing pending answers each contribution of its peer with a
\* tx_complete of its own.
C35_TerminatesWithinTwicePendingPlusTwo ==
    /\ <>SomeoneDone
    /\ [](Messages <= 2 * StartedWith + 2)

\* a run is over with both constructors complete after more messages than
\* contributions plus two: the initiator sent its two contributions and a
\* tx_complete, its peer a tx_complete for each of them
C35_LongExchangeCompleted ==
    /\ BothComplete
    /\ InFlight = {}
    /\ StartedWith >= 2
    /\ Messages = 2 * StartedWith + 1
----------------------------------------------------------------------------
(* Who contributes the shared funding input (Spec) *)

\* the tx_add_input messages carrying a shared_input_txid that party p has
\* emitted and its own record holds, counted as often as they were sent
SharedSentBy(p) ==
    BagCardinality([e \in {x \in DOMAIN hist[p].ins :
                              x.by = "holder" /\ x.txin.previous_output.txid = FundingTxid}
                      |-> hist[p].ins[e]])

\* the descriptor of the shared funding input party p was created with
Descriptor(p) == Ctx(p).shared_funding_input

\* the table of p holds the shared funding input as a Shared entry with the
\* descriptor's outpoint, sequence, value and split
RecordsSharedInput(p) ==
    \E s \in DOMAIN Ctx(p).inputs :
        /\ Ctx(p).inputs[s].kind = "Shared"
        /\ Ctx(p).inputs[s].txin = Descriptor(p).txin
        /\ Ctx(p).inputs[s].prevout_value = Descriptor(p).txout.value
        /\ Ctx(p).inputs[s].to_local_value_satoshis = Descriptor(p).to_local_value_satoshis
        /\ Ctx(p).inputs[s].to_remote_value_satoshis = Descriptor(p).to_remote_value_satoshis

\* party p has sent or received the tx_add_input of the shared funding input
SharedInputExchanged(p) ==
    \E e \in DOMAIN hist[p].ins : e.txin.previous_output.txid = FundingTxid

\* C36: only the initiator contributes the shared funding input: an initiator
\* created with a shared funding input emits exactly one tx_add_input carrying
\* shared_input_txid equal to that input's previous txid (never a second one,
\* and one by the time it sends tx_complete), a non-initiator never emits a
\* tx_add_input carrying a shared_input_txid, and both sides record that input
\* as a Shared entry with the same outpoint, sequence and to_local/to_remote
\* split taken from their own shared-input descriptor.
C36_OnlyInitiatorContributesSharedInput ==
    /\ chan["A"].type = "tx_add_input" => chan["A"].shared_input_txid = "none"
    /\ SharedSentBy("B") = 0
    /\ SharedSentBy("A") <= 1
    /\ (HasContext(cons["A"].state_machine) /\ Descriptor("A").some
           /\ chan["B"].type = "tx_complete")
          => SharedSentBy("A") = 1
    /\ (chan["B"].type = "tx_add_input" /\ chan["B"].shared_input_txid # "none")
          => chan["B"].shared_input_txid = Descriptor("A").txin.previous_output.txid
    /\ \A p \in Parties :
          (HasContext(cons[p].state_machine) /\ SharedInputExchanged(p))
             => RecordsSharedInput(p)
----------------------------------------------------------------------------
(* The state a constructor is left in between calls (Spec, SpecPeer) *)

\* the states in which new and the handle_* entry points leave the machine
RestingStates == {"SentChangeMsg", "SentTxComplete", "NegotiationComplete", "NegotiationAborted"}

\* C37: after InteractiveTxConstructor::new returns and after every handle_*
\* call returns, the state machine of the constructor is in SentChangeMsg,
\* SentTxComplete, NegotiationComplete or NegotiationAborted; it is never left
\* in Indeterminate, ReceivedChangeMsg or ReceivedTxComplete between calls.
C37_RestsInSentOrFinalState ==
    \A p \in Parties : cons[p].made => Tag(p) \in RestingStates

\* a constructor that was handed tx_complete in SentChangeMsg, passed through
\* ReceivedTxComplete and ReceivedChangeMsg inside the call and answered with
\* a contribution of its own is back in SentChangeMsg
C37_BackInSentChangeMsg ==
    \E p \in Parties :
        /\ cons[p].made
        /\ before[p] = "SentChangeMsg"
        /\ ret[p].kind = "SendTxMessage"
        /\ Tag(p) = "SentChangeMsg"
----------------------------------------------------------------------------
(* The assertion branches of handle_tx_complete and new (SpecPeer, Spec) *)

\* party p is handed tx_complete in this step
HandedTxComplete(p) == Delivered(p) /\ chan[p].type = "tx_complete"

\* the state received_tx_complete leaves the machine of p in
StateAfterReceiving(p) == StateMachine_received_tx_complete(cons[p].state_machine, chan[p]).tag

\* C38: the assertion branches are unreachable: no sequence of calls makes
\* handle_tx_complete return InvalidStateTransition (after a successful
\* received_tx_complete the state is ReceivedTxComplete or NegotiationComplete,
\* and after a successful reply it is NegotiationComplete or SentChangeMsg),
\* and the initiator's first send in new never fails.
C38_AssertionBranchesUnreachable ==
    /\ [](\A p \in Parties :
            /\ ret[p] # ErrRet("InvalidStateTransition")
            /\ (cons[p].made /\ before[p] = "none") => Tag(p) \in SentMsgStates)
    /\ [][\A p \in Parties :
            HandedTxComplete(p) =>
              /\ StateAfterReceiving(p) \in {"ReceivedTxComplete", "NegotiationComplete",
                                       "NegotiationAborted"}
              /\ (StateAfterReceiving(p) = "ReceivedTxComplete" /\ ret'[p].kind # "Err")
                    => Tag(p)' \in {"NegotiationComplete", "SentChangeMsg"}]_vars

\* an initiator whose first send in new was a tx_add_input has since been
\* handed tx_complete and has answered it with tx_complete
C38_RepliedAfterFirstSend ==
    /\ cons["A"].made
    /\ before["A"] = "SentChangeMsg"
    /\ ret["A"].kind = "SendTxComplete"
    /\ Tag("A") = "NegotiationComplete"
----------------------------------------------------------------------------
(* The transaction a Remote input's value is read from (SpecSM) *)

\* the Remote inputs of a table
RemoteInputs(ctx) == {s \in DOMAIN ctx.inputs : ctx.inputs[s].kind = "Remote"}

\* the entry spends an output of the previous transaction stored with it and
\* records that output's value
SpendsStoredPrevTx(input) ==
    /\ input.txin.previous_output.txid = input.prev_tx.txid
    /\ HasOutput(input.prev_tx, input.txin.previous_output.vout)
    /\ input.prevout_value
          = OutputAt(input.prev_tx, input.txin.previous_output.vout).value

\* C39: for every Remote input in the table, the txid of the outpoint it
\* spends equals the txid of the previous transaction stored with it, so its
\* recorded prevout value is the value of the output it actually spends; a
\* peer cannot make the holder record a value taken from one transaction for
\* an outpoint of another.
C39_RemoteInputSpendsItsPrevTx ==
    HasContext(sm) =>
        \A s \in RemoteInputs(sm.ctx) : SpendsStoredPrevTx(sm.ctx.inputs[s])
----------------------------------------------------------------------------
(* SpecSplit: contexts over the range of shared-input splits and signed
   contributions, to which the funding output is added *)

\* shared funding inputs with small, half-range and full-range shares
SplitInputs ==
    {NoSharedInput, TheSharedInput,
     SharedFundingInput(TxIn(OutPoint(FundingTxid, 0), ENABLE_RBF_NO_LOCKTIME),
                        TxOut(U64_MAX, "empty"), I64_MAX, I64_MAX + 1),
     SharedFundingInput(TxIn(OutPoint(FundingTxid, 0), ENABLE_RBF_NO_LOCKTIME),
                        TxOut(U64_MAX, "empty"), I64_MAX + 1, I64_MAX),
     SharedFundingInput(TxIn(OutPoint(FundingTxid, 0), ENABLE_RBF_NO_LOCKTIME),
                        TxOut(U64_MAX, "empty"), 1, U64_MAX - 1),
     SharedFundingInput(TxIn(OutPoint(FundingTxid, 0), ENABLE_RBF_NO_LOCKTIME),
                        TxOut(U64_MAX, "empty"), U64_MAX - 1, 1)}

\* signed contributions from i64::MIN to i64::MAX
SplitContributions ==
    {I64_MIN, I64_MIN + 1, 0 - 50001, 0 - 50000, 0 - 1, 0, 1, 2, 20000, I64_MAX}

InitSplit ==
    \E is_initiator \in BOOLEAN, sfi \in SplitInputs :
    \E remote \in SplitContributions, local \in SplitContributions :
        /\ sm = StateMachine_new(FEERATE, is_initiator, LOCKTIME, sfi, NewFundingOutput,
                                 remote, local)
        /\ smlog = NoSM
        /\ cons = [q \in Parties |-> NotMade]
        /\ chan = [q \in Parties |-> NoMsg]
        /\ ret = [q \in Parties |-> NoRet]
        /\ calls = 0
        /\ before = [q \in Parties |-> "none"]
        /\ hist = [q \in Parties |-> NoContributions]
        /\ gen = NoGen

NextSplit == SmSentTxAddOutput \/ SmReceivedTxAddOutput

SpecSplit == InitSplit /\ [][NextSplit]_vars

----------------------------------------------------------------------------
(* The split of the new funding output (SpecSplit) *)

\* share plus the signed contribution, capped at u64::MAX and floored at 0
ShareAfter(share, contribution) ==
    IF contribution >= 0
    THEN IF share >= U64_MAX - contribution THEN U64_MAX ELSE share + contribution
    ELSE IF 0 - contribution >= share THEN 0 ELSE share + contribution

\* the holder's and the counterparty's share of the shared input, 0 without one
ToLocal(ctx) ==
    IF ctx.shared_funding_input.some
    THEN ctx.shared_funding_input.to_local_value_satoshis ELSE 0
ToRemote(ctx) ==
    IF ctx.shared_funding_input.some
    THEN ctx.shared_funding_input.to_remote_value_satoshis ELSE 0

\* the Shared outputs of a table
SharedOutputs(ctx) == {s \in DOMAIN ctx.outputs : ctx.outputs[s].kind = "Shared"}

\* C40: the split of the new funding output is derived with saturating
\* arithmetic for every signed contribution: the local value recorded with the
\* funding output is to_local of the shared input plus local_contribution when
\* the contribution is non-negative (capped at u64::MAX) and to_local minus the
\* absolute value of local_contribution when it is negative (floored at 0),
\* with to_local taken as 0 when there is no shared input; the remote value is
\* the same with to_remote and remote_contribution.
C40_FundingOutputSplit ==
    HasContext(sm) =>
        \A s \in SharedOutputs(sm.ctx) :
            /\ sm.ctx.outputs[s].to_local_value_satoshis
                  = ShareAfter(ToLocal(sm.ctx), sm.ctx.local_contribution_satoshis)
            /\ sm.ctx.outputs[s].to_remote_value_satoshis
                  = ShareAfter(ToRemote(sm.ctx), sm.ctx.remote_contribution_satoshis)
============================================================================
